---------------------------- MODULE Spec2Model ----------------------------
(***************************************************************************)
(* TektonEscrow (contracts/TektonEscrow.sol): the escrow and settlement    *)
(* engine.  The contract's storage, the clock and the asset balances are   *)
(* the state; every external function is one action.  A call is computed   *)
(* by threading a machine state (storage so far, ok flag, revert reason,   *)
(* log of transfers) through the statements of the function in source      *)
(* order; a failed require or external call reverts the whole call.        *)
(***************************************************************************)
EXTENDS Integers, Sequences, FiniteSets, TLC

VARIABLES now, nextOfferId, offers, profiles, userOfferIds,
          minStake, platformFeeBps, feeRecipient, accumulatedFees, bal,
          closings, calls, answer

vars == <<now, nextOfferId, offers, profiles, userOfferIds,
          minStake, platformFeeBps, feeRecipient, accumulatedFees, bal,
          closings, calls, answer>>

---------------------------------------------------------------------------
(* Program constants *)

MAX_FEE_BPS == 500
CANCEL_COOLDOWN == 1800
MIN_EXPIRY_DURATION == 3600
BPS_DENOMINATOR == 10000

(* Bounds of the model *)

MaxOffers == 2
MaxCalls == 3
MaxTime == 3601
ScoreMaxTime == 17280001
InitNative == 230
InitToken == 100

---------------------------------------------------------------------------
(* Addresses.  ZERO is address(0): the native asset as a token address,   *)
(* "public" as an allowedTaker, "nobody" as a taker.  THIS is the escrow.  *)

ZERO == "0x0"
THIS == "escrow"
OWNER == "a3"
Accounts == {"a1", "a2", "a3"}
Holders == Accounts \cup {THIS}
Tokens == {ZERO, "T1", "T2"}

Ids == 0..MaxOffers

(* Inputs of the calls *)

\* createOffer's arguments: <<makerToken, makerAmount, takerToken,
\* takerAmount, expiry, allowedTaker>>
CreateArgs ==
  { <<ZERO, 100, "T1", 50, 3601, ZERO>>,   \* native for token, public
    <<"T1", 50, ZERO, 100, 3601, "a2">>,   \* token for native, private
    <<"T1", 100, "T2", 50, 3601, ZERO>>,   \* token for token, public
    <<ZERO, 0, "T1", 50, 3601, ZERO>>,     \* zero maker amount
    <<"T1", 50, ZERO, 0, 3601, ZERO>>,     \* zero taker amount
    <<"T1", 50, "T1", 50, 3601, ZERO>>,    \* same token
    <<ZERO, 100, "T1", 50, 1, ZERO>>,      \* expiry in the past
    <<ZERO, 100, "T1", 50, 3600, ZERO>> }  \* expiry too soon

ValueSet == {0, 100, 110}
StakeSet == {0, 10}
BpsSet == {30, 500, 501}
RecipientSet == {ZERO, "a1", "a3"}
TickSet == {1799, 1800}

(* What the counterparties' code does during one call: the accounts whose  *)
(* receive function reverts, and the accounts for which the token          *)
(* contracts refuse a transfer (no allowance, blacklisted).                *)
(* hook is the call a recipient makes from its receive function while it   *)
(* is being paid; the accounts of EnvSet make none.                        *)
NoHook == [by |-> ZERO, fn |-> "none", arg |-> 0, value |-> 0]
NoEnv == [rejects |-> {}, denied |-> {}, hook |-> NoHook]
EnvSet ==
  {NoEnv}
  \cup {[rejects |-> {a}, denied |-> {}, hook |-> NoHook] : a \in Accounts}
  \cup {[rejects |-> {}, denied |-> {a}, hook |-> NoHook] : a \in Accounts}

---------------------------------------------------------------------------
(* Storage *)

ZeroOffer ==
  [maker |-> ZERO, makerToken |-> ZERO, makerAmount |-> 0,
   takerToken |-> ZERO, takerAmount |-> 0, stake |-> 0, expiry |-> 0,
   cancelRequestedAt |-> 0, allowedTaker |-> ZERO, taker |-> ZERO,
   status |-> "Open"]

ZeroProfile ==
  [tradesCompleted |-> 0, totalVolume |-> 0, offersCancelled |-> 0,
   offersExpired |-> 0, firstTradeAt |-> 0]

\* The contract's storage, the clock and the balances as one value.  entered
\* is the flag of the re-entrancy guard, which is clear between calls.
Cur ==
  [now |-> now, nextOfferId |-> nextOfferId, offers |-> offers,
   profiles |-> profiles, userOfferIds |-> userOfferIds,
   minStake |-> minStake, platformFeeBps |-> platformFeeBps,
   feeRecipient |-> feeRecipient, accumulatedFees |-> accumulatedFees,
   bal |-> bal, entered |-> FALSE]

\* offers[offerId]: a mapping read; an id never written reads as zeros.
OfferAt(S, offerId) ==
  IF offerId \in DOMAIN S.offers THEN S.offers[offerId] ELSE ZeroOffer

---------------------------------------------------------------------------
(* Statements *)

\* The ledger: the storage an operation writes (the parameters apart).
Ledger(st) ==
  [nextOfferId |-> st.nextOfferId, offers |-> st.offers,
   profiles |-> st.profiles, userOfferIds |-> st.userOfferIds,
   accumulatedFees |-> st.accumulatedFees]

\* Entry of a payable call: msg.value moves from the sender to the escrow.
\* log lists the transfers made so far and seen the ledger as it stood when
\* each of them was made.
Enter(S, sender, value) ==
  [st |-> [S EXCEPT !.bal[ZERO][sender] = @ - value,
                    !.bal[ZERO][THIS] = @ + value],
   ok |-> TRUE, reason |-> "", log |-> <<>>, events |-> <<>>,
   seen |-> <<>>, nested |-> <<>>]

Fail(m, msg) == [m EXCEPT !.ok = FALSE, !.reason = msg]

Require(m, cond, msg) ==
  IF ~m.ok THEN m
  ELSE IF cond THEN m ELSE Fail(m, msg)

\* nonReentrant without its check.
nonReentrant_Off(m) == m

\* The nonReentrant modifier: the call reverts when the guard is set, and
\* sets it until it ends.
nonReentrant(m) ==
  IF ~m.ok THEN m
  ELSE IF m.st.entered THEN Fail(m, "ReentrancyGuardReentrantCall")
  ELSE [m EXCEPT !.st.entered = TRUE]

\* emit Event(offerId, ...)
Emit(m, name, offerId) ==
  IF ~m.ok THEN m
  ELSE [m EXCEPT !.events = Append(@, <<name, offerId>>)]

\* The end of a call: a call that failed anywhere is reverted as a whole,
\* and the guard is left as the call found it.
Finish(m, S) ==
  IF m.ok
  THEN [ok |-> TRUE, reason |-> "",
        st |-> [m.st EXCEPT !.entered = S.entered], log |-> m.log,
        events |-> m.events, seen |-> m.seen, nested |-> m.nested]
  ELSE [ok |-> FALSE, reason |-> m.reason, st |-> S, log |-> <<>>,
        events |-> <<>>, seen |-> <<>>, nested |-> <<>>]

\* The functions below make no transfer; a recipient of value may call them
\* while the call that pays it is still running (see Reenter).

\* requestCancel without the require on the status.
requestCancel_AnyStatus(S, sender, offerId) ==
  LET o == OfferAt(S, offerId)
      m0 == Enter(S, sender, 0)
      m1 == Require(m0, o.maker = sender, "Not the maker")
      m3 == Require(m1, o.cancelRequestedAt = 0, "Cancel already requested")
      m4 == IF ~m3.ok THEN m3
            ELSE [m3 EXCEPT !.st.offers[offerId].cancelRequestedAt = S.now]
  IN Finish(Emit(m4, "CancelRequested", offerId), S)

\* requestCancel without the require on an earlier request.
requestCancel_Restart(S, sender, offerId) ==
  LET o == OfferAt(S, offerId)
      m0 == Enter(S, sender, 0)
      m1 == Require(m0, o.maker = sender, "Not the maker")
      m2 == Require(m1, o.status = "Open", "Offer not open")
      m4 == IF ~m2.ok THEN m2
            ELSE [m2 EXCEPT !.st.offers[offerId].cancelRequestedAt = S.now]
  IN Finish(Emit(m4, "CancelRequested", offerId), S)

requestCancel(S, sender, offerId) ==
  LET o == OfferAt(S, offerId)
      m0 == Enter(S, sender, 0)
      m1 == Require(m0, o.maker = sender, "Not the maker")
      m2 == Require(m1, o.status = "Open", "Offer not open")
      m3 == Require(m2, o.cancelRequestedAt = 0, "Cancel already requested")
      m4 == IF ~m3.ok THEN m3
            ELSE [m3 EXCEPT !.st.offers[offerId].cancelRequestedAt = S.now]
  IN Finish(Emit(m4, "CancelRequested", offerId), S)

\* onlyOwner that lets every caller through.
onlyOwner_Anyone(m, sender) == m

onlyOwner(m, sender) == Require(m, sender = OWNER, "OwnableUnauthorizedAccount")

setMinStake(S, sender, _minStake) ==
  LET m1 == onlyOwner(Enter(S, sender, 0), sender)
      m2 == IF ~m1.ok THEN m1 ELSE [m1 EXCEPT !.st.minStake = _minStake]
  IN Finish(m2, S)

\* setPlatformFee without the require on the cap.
setPlatformFee_NoCap(S, sender, _bps) ==
  LET m1 == onlyOwner(Enter(S, sender, 0), sender)
      m3 == IF ~m1.ok THEN m1 ELSE [m1 EXCEPT !.st.platformFeeBps = _bps]
  IN Finish(m3, S)

setPlatformFee(S, sender, _bps) ==
  LET m1 == onlyOwner(Enter(S, sender, 0), sender)
      m2 == Require(m1, _bps <= MAX_FEE_BPS, "Fee exceeds cap")
      m3 == IF ~m2.ok THEN m2 ELSE [m2 EXCEPT !.st.platformFeeBps = _bps]
  IN Finish(m3, S)

setFeeRecipient(S, sender, _recipient) ==
  LET m1 == onlyOwner(Enter(S, sender, 0), sender)
      m2 == Require(m1, _recipient # ZERO, "Invalid recipient")
      m3 == IF ~m2.ok THEN m2 ELSE [m2 EXCEPT !.st.feeRecipient = _recipient]
  IN Finish(m3, S)

\* The functions that carry the nonReentrant modifier (lines 130, 198, 292,
\* 322, 504).  requestCancel and the three setters do not carry it.
NonReentrant ==
  {"createOffer", "acceptOffer", "finalizeCancel", "reclaimExpired",
   "withdrawFees"}

StateChanging ==
  NonReentrant
  \cup {"requestCancel", "setMinStake", "setPlatformFee", "setFeeRecipient"}

\* The paying call goes on from what the nested call r left: its storage,
\* its transfers and its events, whatever its outcome.
Nested(m, fn, to, r) ==
  [m EXCEPT !.st = r.st,
            !.log = @ \o r.log,
            !.events = @ \o r.events,
            !.nested = Append(@, [fn |-> fn, by |-> to, ok |-> r.ok])]

\* Defined after the external functions, which it calls.
RECURSIVE NestedCall(_, _, _)

\* to.call{value: amount}("") hands control to the recipient: if it is the
\* account of env.hook it makes its nested call, and accepts the value
\* whatever the outcome of that call.
Reenter(m, to, env) ==
  IF env.hook.by # to THEN m
  ELSE Nested(m, env.hook.fn, to, NestedCall(m.st, env.hook, env))

Move(m, token, from, to, amount, tag) ==
  [m EXCEPT !.st.bal[token][from] = @ - amount,
            !.st.bal[token][to] = @ + amount,
            !.log = Append(@, [tag |-> tag, token |-> token, from |-> from,
                               to |-> to, amount |-> amount]),
            !.seen = Append(@, Ledger(m.st))]

\* SendValue without its require: a refused transfer is ignored.
SendValue_Unchecked(m, to, amount, env, tag, msg) ==
  IF ~m.ok THEN m
  ELSE IF to \in env.rejects \/ m.st.bal[ZERO][THIS] < amount THEN m
  ELSE Move(m, ZERO, THIS, to, amount, tag)

\* (bool ok, ) = to.call{value: amount}(""); require(ok, msg);
SendValue(m, to, amount, env, tag, msg) ==
  IF ~m.ok THEN m
  ELSE IF to \in env.rejects \/ m.st.bal[ZERO][THIS] < amount THEN Fail(m, msg)
  ELSE Reenter(Move(m, ZERO, THIS, to, amount, tag), to, env)

\* IERC20(token).safeTransferFrom(from, address(this), amount)
SafeTransferFrom(m, token, from, amount, env, tag) ==
  IF ~m.ok THEN m
  ELSE IF from \in env.denied \/ m.st.bal[token][from] < amount
       THEN Fail(m, "SafeERC20FailedOperation")
  ELSE Move(m, token, from, THIS, amount, tag)

\* IERC20(token).safeTransfer(to, amount)
SafeTransfer(m, token, to, amount, env, tag) ==
  IF ~m.ok THEN m
  ELSE IF to \in env.denied \/ m.st.bal[token][THIS] < amount
       THEN Fail(m, "SafeERC20FailedOperation")
  ELSE Move(m, token, THIS, to, amount, tag)

_transferOut(m, token, to, amount, env, tag) ==
  IF ~m.ok \/ amount = 0 THEN m
  ELSE IF token = ZERO
       THEN SendValue(m, to, amount, env, tag, "BTC transfer failed")
       ELSE SafeTransfer(m, token, to, amount, env, tag)

\* refundExcess that sends nothing back.
refundExcess_Never(m, to, excess, env) == m

\* lines 143-147, 152-156, 213-217: send back the value beyond what is due
refundExcess(m, to, excess, env) ==
  IF excess > 0
  THEN SendValue(m, to, excess, env, "excess", "Excess refund failed")
  ELSE m

\* _recordTrade that dates every trade, not the first only.
_recordTrade_Overwrites(m, trader, volume) ==
  IF ~m.ok THEN m
  ELSE LET p == m.st.profiles[trader] IN
       [m EXCEPT !.st.profiles[trader] =
          [p EXCEPT !.tradesCompleted = @ + 1,
                    !.totalVolume = @ + volume,
                    !.firstTradeAt = m.st.now]]

_recordTrade(m, trader, volume) ==
  IF ~m.ok THEN m
  ELSE LET p == m.st.profiles[trader] IN
       [m EXCEPT !.st.profiles[trader] =
          [p EXCEPT !.tradesCompleted = @ + 1,
                    !.totalVolume = @ + volume,
                    !.firstTradeAt = IF @ = 0 THEN m.st.now ELSE @]]


---------------------------------------------------------------------------
(* constructor *)

constructor(_minStake, _platformFeeBps, _feeRecipient) ==
  /\ _platformFeeBps <= MAX_FEE_BPS
  /\ _feeRecipient # ZERO
  /\ minStake = _minStake
  /\ platformFeeBps = _platformFeeBps
  /\ feeRecipient = _feeRecipient
  /\ nextOfferId = 0
  /\ offers = <<>>
  /\ profiles = [a \in Accounts |-> ZeroProfile]
  /\ userOfferIds = [a \in Accounts |-> <<>>]
  /\ accumulatedFees = 0

---------------------------------------------------------------------------
(* createOffer *)

\* createChecks asking for strictly more than the minimum lifetime.
createChecks_StrictLifetime(m, makerToken, makerAmount, takerToken, takerAmount, expiry) ==
  LET m1 == Require(m, makerAmount > 0, "Maker amount is zero")
      m2 == Require(m1, takerAmount > 0, "Taker amount is zero")
      m3 == Require(m2, expiry > m.st.now, "Expiry in the past")
      m4 == Require(m3, expiry > m.st.now + MIN_EXPIRY_DURATION,
                    "Expiry too soon (min 1h)")
  IN Require(m4, makerToken # takerToken, "Cannot trade same token")

\* lines 131-135: the requires on the arguments
createChecks(m, makerToken, makerAmount, takerToken, takerAmount, expiry) ==
  LET m1 == Require(m, makerAmount > 0, "Maker amount is zero")
      m2 == Require(m1, takerAmount > 0, "Taker amount is zero")
      m3 == Require(m2, expiry > m.st.now, "Expiry in the past")
      m4 == Require(m3, expiry >= m.st.now + MIN_EXPIRY_DURATION,
                    "Expiry too soon (min 1h)")
  IN Require(m4, makerToken # takerToken, "Cannot trade same token")

\* lines 138-158: take the deposit and the stake in
createPull(m, sender, value, makerToken, makerAmount, stake, env) ==
  IF makerToken = ZERO
  THEN refundExcess(Require(m, value >= makerAmount + stake,
                            "Insufficient BTC sent"),
                    sender, value - makerAmount - stake, env)
  ELSE SafeTransferFrom(refundExcess(Require(m, value >= stake,
                                             "Insufficient stake"),
                                     sender, value - stake, env),
                        makerToken, sender, makerAmount, env, "pull")

\* createEffects that does not advance the counter.
createEffects_ReuseId(m, sender, offer) ==
  IF ~m.ok THEN m
  ELSE LET offerId == m.st.nextOfferId
       IN Emit([m EXCEPT
                  !.st.offers = [i \in (DOMAIN @) \cup {offerId} |->
                                   IF i = offerId THEN offer ELSE @[i]],
                  !.st.userOfferIds[sender] = Append(@, offerId)],
               "OfferCreated", offerId)

\* lines 160-188: number the offer, store it, index it, announce it
createEffects(m, sender, offer) ==
  IF ~m.ok THEN m
  ELSE LET offerId == m.st.nextOfferId
       IN Emit([m EXCEPT
                  !.st.nextOfferId = @ + 1,
                  !.st.offers = [i \in (DOMAIN @) \cup {offerId} |->
                                   IF i = offerId THEN offer ELSE @[i]],
                  !.st.userOfferIds[sender] = Append(@, offerId)],
               "OfferCreated", offerId)

createOffer(S, sender, value, makerToken, makerAmount, takerToken, takerAmount, expiry, allowedTaker, env) ==
  LET stake == S.minStake
      offer == [maker |-> sender, makerToken |-> makerToken,
                makerAmount |-> makerAmount, takerToken |-> takerToken,
                takerAmount |-> takerAmount, stake |-> stake,
                expiry |-> expiry, cancelRequestedAt |-> 0,
                allowedTaker |-> allowedTaker, taker |-> ZERO,
                status |-> "Open"]
  IN Finish(createEffects(
              createPull(createChecks(nonReentrant(Enter(S, sender, value)),
                                      makerToken, makerAmount, takerToken,
                                      takerAmount, expiry),
                         sender, value, makerToken, makerAmount, stake, env),
              sender, offer),
            S)

---------------------------------------------------------------------------
(* acceptOffer *)

\* acceptChecks that also refuses an offer with a cancellation pending.
acceptChecks_NoPendingCancel(m, o, sender) ==
  LET m1 == Require(m, o.status = "Open", "Offer not open")
      m2 == Require(m1, m.st.now < o.expiry, "Offer expired")
      m3 == Require(m2, o.maker # sender, "Cannot accept own offer")
      m4 == Require(m3, o.allowedTaker = ZERO \/ o.allowedTaker = sender,
                    "Not allowed taker")
  IN Require(m4, o.cancelRequestedAt = 0, "Cancel pending")

\* acceptChecks without the require on allowedTaker.
acceptChecks_AnyTaker(m, o, sender) ==
  LET m1 == Require(m, o.status = "Open", "Offer not open")
      m2 == Require(m1, m.st.now < o.expiry, "Offer expired")
  IN Require(m2, o.maker # sender, "Cannot accept own offer")

\* acceptChecks that still accepts at the expiry itself.
acceptChecks_ThroughExpiry(m, o, sender) ==
  LET m1 == Require(m, o.status = "Open", "Offer not open")
      m2 == Require(m1, m.st.now <= o.expiry, "Offer expired")
      m3 == Require(m2, o.maker # sender, "Cannot accept own offer")
  IN Require(m3, o.allowedTaker = ZERO \/ o.allowedTaker = sender,
             "Not allowed taker")

\* lines 201-207: the requires on the offer and the caller
acceptChecks(m, o, sender) ==
  LET m1 == Require(m, o.status = "Open", "Offer not open")
      m2 == Require(m1, m.st.now < o.expiry, "Offer expired")
      m3 == Require(m2, o.maker # sender, "Cannot accept own offer")
  IN Require(m3, o.allowedTaker = ZERO \/ o.allowedTaker = sender,
             "Not allowed taker")

\* lines 209-224: transfer taker's side in
acceptPull(m, o, sender, value, env) ==
  IF o.takerToken = ZERO
  THEN refundExcess(Require(m, value >= o.takerAmount, "Insufficient BTC"),
                    sender, value - o.takerAmount, env)
  ELSE SafeTransferFrom(m, o.takerToken, sender, o.takerAmount, env, "pull")

\* Fee rounding up instead of truncating.
Fee_RoundUp(amount, bps) ==
  (amount * bps + BPS_DENOMINATOR - 1) \div BPS_DENOMINATOR

Fee(amount, bps) == (amount * bps) \div BPS_DENOMINATOR

\* acceptEffects recording for each party the amount of the leg it receives.
acceptEffects_Received(m, offerId, o, sender) ==
  IF ~m.ok THEN m
  ELSE LET m1 == [m EXCEPT !.st.offers[offerId].taker = sender,
                           !.st.offers[offerId].status = "Settled",
                           !.st.offers[offerId].cancelRequestedAt = 0]
           m2 == _recordTrade(m1, o.maker, o.takerAmount)
           m3 == _recordTrade(m2, sender, o.makerAmount)
       IN [m3 EXCEPT !.st.userOfferIds[sender] = Append(@, offerId)]

\* acceptEffects that leaves the taker's index as it was.
acceptEffects_NoIndex(m, offerId, o, sender) ==
  IF ~m.ok THEN m
  ELSE LET m1 == [m EXCEPT !.st.offers[offerId].taker = sender,
                           !.st.offers[offerId].status = "Settled",
                           !.st.offers[offerId].cancelRequestedAt = 0]
           m2 == _recordTrade(m1, o.maker, o.makerAmount)
       IN _recordTrade(m2, sender, o.takerAmount)

\* acceptEffects that leaves the date of a pending cancellation in place.
acceptEffects_KeepsRequest(m, offerId, o, sender) ==
  IF ~m.ok THEN m
  ELSE LET m1 == [m EXCEPT !.st.offers[offerId].taker = sender,
                           !.st.offers[offerId].status = "Settled"]
           m2 == _recordTrade(m1, o.maker, o.makerAmount)
           m3 == _recordTrade(m2, sender, o.takerAmount)
       IN [m3 EXCEPT !.st.userOfferIds[sender] = Append(@, offerId)]

\* lines 232-241: effects
acceptEffects(m, offerId, o, sender) ==
  IF ~m.ok THEN m
  ELSE LET m1 == [m EXCEPT !.st.offers[offerId].taker = sender,
                           !.st.offers[offerId].status = "Settled",
                           !.st.offers[offerId].cancelRequestedAt = 0]
           m2 == _recordTrade(m1, o.maker, o.makerAmount)
           m3 == _recordTrade(m2, sender, o.takerAmount)
       IN [m3 EXCEPT !.st.userOfferIds[sender] = Append(@, offerId)]

\* feeLeg that never forwards a token fee to the fee recipient.
feeLeg_Retained(m, token, fee, env, tag) ==
  IF ~m.ok THEN m
  ELSE IF token = ZERO
       THEN [m EXCEPT !.st.accumulatedFees = @ + fee]
       ELSE m

\* feeLeg crediting a native fee twice to the accumulator.
feeLeg_DoubleCount(m, token, fee, env, tag) ==
  IF ~m.ok THEN m
  ELSE IF token = ZERO
       THEN [m EXCEPT !.st.accumulatedFees = @ + fee + fee]
       ELSE IF fee > 0
            THEN SafeTransfer(m, token, m.st.feeRecipient, fee, env, tag)
            ELSE m

\* feeLeg that also counts a forwarded token fee in the accumulator.
feeLeg_TokenCounted(m, token, fee, env, tag) ==
  IF ~m.ok THEN m
  ELSE IF token = ZERO
       THEN [m EXCEPT !.st.accumulatedFees = @ + fee]
       ELSE IF fee > 0
            THEN SafeTransfer([m EXCEPT !.st.accumulatedFees = @ + fee],
                              token, m.st.feeRecipient, fee, env, tag)
            ELSE m

\* lines 247-257: one fee leg; native fees accumulate, token fees go out
feeLeg(m, token, fee, env, tag) ==
  IF ~m.ok THEN m
  ELSE IF token = ZERO
       THEN [m EXCEPT !.st.accumulatedFees = @ + fee]
       ELSE IF fee > 0
            THEN SafeTransfer(m, token, m.st.feeRecipient, fee, env, tag)
            ELSE m

\* refundStake that keeps the stake.
refundStake_Withheld(m, o, env) == m

\* refundStake that refunds the minimum stake in force, not the offer's.
refundStake_CurrentMinStake(m, o, env) ==
  IF ~m.ok THEN m
  ELSE IF m.st.minStake > 0
       THEN SendValue(m, o.maker, m.st.minStake, env, "stake",
                      "Stake refund failed")
       ELSE m

\* lines 265-269, 310-314, 336-340: refund the maker's stake
refundStake(m, o, env) ==
  IF ~m.ok THEN m
  ELSE IF o.stake > 0
       THEN SendValue(m, o.maker, o.stake, env, "stake", "Stake refund failed")
       ELSE m

\* lines 227-269: the fees at the rate in force, the effects, the payouts
acceptSettle(m, offerId, o, sender, env) ==
  LET makerFee == Fee(o.takerAmount, m.st.platformFeeBps)
      takerFee == Fee(o.makerAmount, m.st.platformFeeBps)
      makerReceives == o.takerAmount - makerFee
      takerReceives == o.makerAmount - takerFee
  IN refundStake(
       _transferOut(
         _transferOut(
           feeLeg(feeLeg(acceptEffects(m, offerId, o, sender),
                         o.takerToken, makerFee, env, "makerFee"),
                  o.makerToken, takerFee, env, "takerFee"),
           o.takerToken, o.maker, makerReceives, env, "payMaker"),
         o.makerToken, sender, takerReceives, env, "payTaker"),
       o, env)

acceptOffer(S, sender, value, offerId, env) ==
  LET o == OfferAt(S, offerId)
  IN Finish(Emit(acceptSettle(
                   acceptPull(acceptChecks(nonReentrant(Enter(S, sender,
                                                              value)),
                                           o, sender),
                              o, sender, value, env),
                   offerId, o, sender, env),
                 "OfferSettled", offerId),
            S)

---------------------------------------------------------------------------
(* finalizeCancel, reclaimExpired *)

\* finalizeChecks with a strict comparison on the cooldown.
finalizeChecks_StrictCooldown(m, o, sender) ==
  LET m1 == Require(m, o.maker = sender, "Not the maker")
      m2 == Require(m1, o.status = "Open", "Offer not open")
      m3 == Require(m2, o.cancelRequestedAt > 0, "Cancel not requested")
  IN Require(m3, m.st.now > o.cancelRequestedAt + CANCEL_COOLDOWN,
             "Cooldown not elapsed")

\* lines 294-300: the requires of finalizeCancel
finalizeChecks(m, o, sender) ==
  LET m1 == Require(m, o.maker = sender, "Not the maker")
      m2 == Require(m1, o.status = "Open", "Offer not open")
      m3 == Require(m2, o.cancelRequestedAt > 0, "Cancel not requested")
  IN Require(m3, m.st.now >= o.cancelRequestedAt + CANCEL_COOLDOWN,
             "Cooldown not elapsed")

\* finalizeCancel that closes the offer as Expired.
finalizeCancel_AsExpired(S, sender, offerId, env) ==
  LET o == OfferAt(S, offerId)
      m0 == nonReentrant(Enter(S, sender, 0))
      m1 == finalizeChecks(m0, o, sender)
      m2 == IF ~m1.ok THEN m1
            ELSE [m1 EXCEPT !.st.offers[offerId].status = "Expired",
                            !.st.profiles[o.maker].offersCancelled = @ + 1]
      m3 == _transferOut(m2, o.makerToken, o.maker, o.makerAmount, env,
                         "refund")
      m4 == refundStake(m3, o, env)
  IN Finish(Emit(m4, "CancelFinalized", offerId), S)

\* closeOffer that clears the record it closes, keeping the status only.
closeOffer_Deletes(m, offerId, o, status, env) ==
  refundStake(
    _transferOut(
      IF ~m.ok THEN m
      ELSE IF status = "Cancelled"
           THEN [m EXCEPT !.st.offers[offerId] =
                            [ZeroOffer EXCEPT !.status = status],
                          !.st.profiles[o.maker].offersCancelled = @ + 1]
           ELSE [m EXCEPT !.st.offers[offerId] =
                            [ZeroOffer EXCEPT !.status = status],
                          !.st.profiles[o.maker].offersExpired = @ + 1],
      o.makerToken, o.maker, o.makerAmount, env, "refund"),
    o, env)

\* closeOffer that counts every closed offer as a cancellation.
closeOffer_CountsCancelled(m, offerId, o, status, env) ==
  refundStake(
    _transferOut(
      IF ~m.ok THEN m
      ELSE [m EXCEPT !.st.offers[offerId].status = status,
                     !.st.profiles[o.maker].offersCancelled = @ + 1],
      o.makerToken, o.maker, o.makerAmount, env, "refund"),
    o, env)

\* lines 302-314, 328-340: close the offer, count it, give the deposit and
\* the stake back
closeOffer(m, offerId, o, status, env) ==
  refundStake(
    _transferOut(
      IF ~m.ok THEN m
      ELSE IF status = "Cancelled"
           THEN [m EXCEPT !.st.offers[offerId].status = status,
                          !.st.profiles[o.maker].offersCancelled = @ + 1]
           ELSE [m EXCEPT !.st.offers[offerId].status = status,
                          !.st.profiles[o.maker].offersExpired = @ + 1],
      o.makerToken, o.maker, o.makerAmount, env, "refund"),
    o, env)

finalizeCancel(S, sender, offerId, env) ==
  LET o == OfferAt(S, offerId)
  IN Finish(Emit(closeOffer(finalizeChecks(nonReentrant(Enter(S, sender, 0)),
                                           o, sender),
                            offerId, o, "Cancelled", env),
                 "CancelFinalized", offerId),
            S)

\* reclaimChecks without the require on the status.
reclaimChecks_AnyStatus(m, o, sender) ==
  LET m1 == Require(m, o.maker = sender, "Not the maker")
  IN Require(m1, m.st.now >= o.expiry, "Not yet expired")

\* reclaimChecks without the require on the caller.
reclaimChecks_AnyCaller(m, o, sender) ==
  LET m2 == Require(m, o.status = "Open", "Offer not open")
  IN Require(m2, m.st.now >= o.expiry, "Not yet expired")

\* reclaimChecks that refuses an offer whose cancellation is pending.
reclaimChecks_NoPendingCancel(m, o, sender) ==
  LET m1 == Require(m, o.maker = sender, "Not the maker")
      m2 == Require(m1, o.status = "Open", "Offer not open")
      m3 == Require(m2, o.cancelRequestedAt = 0, "Cancel pending")
  IN Require(m3, m.st.now >= o.expiry, "Not yet expired")

\* lines 324-326: the requires of reclaimExpired
reclaimChecks(m, o, sender) ==
  LET m1 == Require(m, o.maker = sender, "Not the maker")
      m2 == Require(m1, o.status = "Open", "Offer not open")
  IN Require(m2, m.st.now >= o.expiry, "Not yet expired")

reclaimExpired(S, sender, offerId, env) ==
  LET o == OfferAt(S, offerId)
  IN Finish(Emit(closeOffer(reclaimChecks(nonReentrant(Enter(S, sender, 0)),
                                          o, sender),
                            offerId, o, "Expired", env),
                 "OfferReclaimed", offerId),
            S)

---------------------------------------------------------------------------
(* withdrawFees *)

\* lines 507-509: empty the accumulator, then pay the recipient in force
payFees(m, amount, env) ==
  SendValue(IF ~m.ok THEN m ELSE [m EXCEPT !.st.accumulatedFees = 0],
            m.st.feeRecipient, amount, env, "fees", "Fee withdrawal failed")

\* withdrawFees that leaves the accumulator as it was.
withdrawFees_NoReset(S, sender, env) ==
  LET m1 == nonReentrant(onlyOwner(Enter(S, sender, 0), sender))
      amount == S.accumulatedFees
      m2 == Require(m1, amount > 0, "No fees to withdraw")
      m4 == SendValue(m2, m2.st.feeRecipient, amount, env, "fees",
                      "Fee withdrawal failed")
  IN Finish(m4, S)

withdrawFees(S, sender, env) ==
  Finish(payFees(Require(nonReentrant(onlyOwner(Enter(S, sender, 0), sender)),
                         S.accumulatedFees > 0, "No fees to withdraw"),
                 S.accumulatedFees, env),
         S)

---------------------------------------------------------------------------
(* Calls made by a recipient of value while it is being paid *)

\* The call h.fn(h.arg) made by account h.by from its receive function, with
\* value h.value, on the storage as it stands in the middle of the paying
\* call.  The account re-enters once: it makes no call from within the
\* nested call.
NestedCall(st, h, env) ==
  LET inner == [env EXCEPT !.hook = NoHook]
      a == h.arg
  IN CASE h.value > st.bal[ZERO][h.by] ->
            Finish(Fail(Enter(st, h.by, 0), "OutOfFunds"), st)
       [] h.fn = "requestCancel" -> requestCancel(st, h.by, a)
       [] h.fn = "setMinStake" -> setMinStake(st, h.by, a)
       [] h.fn = "setPlatformFee" -> setPlatformFee(st, h.by, a)
       [] h.fn = "setFeeRecipient" -> setFeeRecipient(st, h.by, a)
       [] h.fn = "createOffer" ->
            createOffer(st, h.by, h.value, a[1], a[2], a[3], a[4], a[5],
                        a[6], inner)
       [] h.fn = "acceptOffer" -> acceptOffer(st, h.by, h.value, a, inner)
       [] h.fn = "finalizeCancel" -> finalizeCancel(st, h.by, a, inner)
       [] h.fn = "reclaimExpired" -> reclaimExpired(st, h.by, a, inner)
       [] h.fn = "withdrawFees" -> withdrawFees(st, h.by, inner)

---------------------------------------------------------------------------
(* View functions.  Amounts are counted in units of 10^17 wei, so that     *)
(* 1 ether is 10 and the volume cap of 10 ether is 100.                    *)

VOLUME_CAP == 100

\* getReliabilityScore dividing before it multiplies.
getReliabilityScore_DivideFirst(S, user) ==
  LET p == S.profiles[user]
      totalOffers == p.tradesCompleted + p.offersCancelled + p.offersExpired
      completionPts == (p.tradesCompleted \div totalOffers) * 80
      daysSince == (S.now - p.firstTradeAt) \div 86400
      agePts == IF p.firstTradeAt > 0
                THEN (IF daysSince >= 90 THEN 10 ELSE (daysSince \div 90) * 10)
                ELSE 0
      volumePts == IF p.totalVolume >= VOLUME_CAP THEN 10
                   ELSE (p.totalVolume \div VOLUME_CAP) * 10
  IN IF totalOffers = 0 THEN 0 ELSE completionPts + agePts + volumePts

\* getReliabilityScore counting the age from firstTradeAt even when it is 0.
getReliabilityScore_AgeFromZero(S, user) ==
  LET p == S.profiles[user]
      totalOffers == p.tradesCompleted + p.offersCancelled + p.offersExpired
      completionPts == (p.tradesCompleted * 80) \div totalOffers
      daysSince == (S.now - p.firstTradeAt) \div 86400
      agePts == IF daysSince >= 90 THEN 10 ELSE (daysSince * 10) \div 90
      volumePts == IF p.totalVolume >= VOLUME_CAP THEN 10
                   ELSE (p.totalVolume * 10) \div VOLUME_CAP
  IN IF totalOffers = 0 THEN 0 ELSE completionPts + agePts + volumePts

\* lines 458-483
getReliabilityScore(S, user) ==
  LET p == S.profiles[user]
      totalOffers == p.tradesCompleted + p.offersCancelled + p.offersExpired
      completionPts == (p.tradesCompleted * 80) \div totalOffers
      daysSince == (S.now - p.firstTradeAt) \div 86400
      agePts == IF p.firstTradeAt > 0
                THEN (IF daysSince >= 90 THEN 10 ELSE (daysSince * 10) \div 90)
                ELSE 0
      volumePts == IF p.totalVolume >= VOLUME_CAP THEN 10
                   ELSE (p.totalVolume * 10) \div VOLUME_CAP
  IN IF totalOffers = 0 THEN 0 ELSE completionPts + agePts + volumePts

\* lines 347-349: return offers[offerId]
getOffer(S, offerId) == OfferAt(S, offerId)

\* lines 434-440
getUserOffers(S, user) == S.userOfferIds[user]

\* lines 400-403: the offer is Open and not yet expired
isActive(S, i) ==
  S.offers[i].status = "Open" /\ S.now < S.offers[i].expiry

RECURSIVE countActive(_, _)
\* lines 398-406: the first pass, from offer i on
countActive(S, i) ==
  IF i >= S.nextOfferId THEN 0
  ELSE (IF isActive(S, i) THEN 1 ELSE 0) + countActive(S, i + 1)

RECURSIVE collectPage(_, _, _, _, _, _)
\* lines 418-431: the second pass, from offer i on; page is the pair of
\* arrays filled so far.
collectPage(S, i, skipped, collected, lim, page) ==
  IF ~(i < S.nextOfferId /\ collected < lim.pageSize) THEN page
  ELSE IF ~isActive(S, i)
       THEN collectPage(S, i + 1, skipped, collected, lim, page)
       ELSE IF skipped < lim.start
            THEN collectPage(S, i + 1, skipped + 1, collected, lim, page)
            ELSE collectPage(S, i + 1, skipped, collected + 1, lim,
                   [ids |-> [page.ids EXCEPT ![collected + 1] = i],
                    activeOffers |->
                      [page.activeOffers EXCEPT ![collected + 1] =
                                                   S.offers[i]]])

\* getActiveOffersPaginated sizing the page without regard to the offset.
getActiveOffersPaginated_PageOfLimit(S, offset, limit) ==
  LET totalActive == countActive(S, 0)
      start == IF offset > totalActive THEN totalActive ELSE offset
      pageSize == IF totalActive < limit THEN totalActive ELSE limit
      empty == [ids |-> [k \in 1..pageSize |-> 0],
                activeOffers |-> [k \in 1..pageSize |-> ZeroOffer]]
      page == collectPage(S, 0, 0, 0,
                          [start |-> start, pageSize |-> pageSize], empty)
  IN [ok |-> TRUE, ids |-> page.ids, activeOffers |-> page.activeOffers,
      totalActive |-> totalActive]

\* lines 388-432; the subtraction of line 410 reverts if it underflows
getActiveOffersPaginated(S, offset, limit) ==
  LET totalActive == countActive(S, 0)
      start == IF offset > totalActive THEN totalActive ELSE offset
      remaining == totalActive - start
      pageSize == IF remaining < limit THEN remaining ELSE limit
      empty == [ids |-> [k \in 1..pageSize |-> 0],
                activeOffers |-> [k \in 1..pageSize |-> ZeroOffer]]
      page == collectPage(S, 0, 0, 0,
                          [start |-> start, pageSize |-> pageSize], empty)
  IN [ok |-> remaining >= 0, ids |-> page.ids,
      activeOffers |-> page.activeOffers, totalActive |-> totalActive]

---------------------------------------------------------------------------
(* The state machine.  A call that reverts leaves the state as it was: it   *)
(* is a stuttering step, so the actions below are the calls that succeed.  *)
(* closings counts, per offer, the OfferSettled, CancelFinalized and       *)
(* OfferReclaimed events emitted so far; calls counts the calls made;      *)
(* answer is what the last call of a view function returned.               *)
(* Each action first evaluates the function's requires for the caller and  *)
(* the offer, and draws the value sent and the counterparties' behaviour   *)
(* only for the calls that pass them.                                      *)

\* No view function has returned yet.
NoAnswer == [fn |-> "none"]

ClosingEvents == {"OfferSettled", "CancelFinalized", "OfferReclaimed"}

\* The number of closing events in the log of a call, for one offer.
Closings(events, offerId) ==
  Cardinality({i \in DOMAIN events :
                 events[i][1] \in ClosingEvents /\ events[i][2] = offerId})

Commit(r) ==
  /\ r.ok
  /\ calls' = calls + 1
  /\ closings' = [i \in Ids |-> closings[i] + Closings(r.events, i)]
  /\ nextOfferId' = r.st.nextOfferId
  /\ offers' = r.st.offers
  /\ profiles' = r.st.profiles
  /\ userOfferIds' = r.st.userOfferIds
  /\ minStake' = r.st.minStake
  /\ platformFeeBps' = r.st.platformFeeBps
  /\ feeRecipient' = r.st.feeRecipient
  /\ accumulatedFees' = r.st.accumulatedFees
  /\ bal' = r.st.bal
  /\ now' = now
  /\ answer' = answer

InitBal ==
  [t \in Tokens |-> [h \in Holders |->
     IF h = THIS THEN 0
     ELSE IF t = ZERO THEN InitNative
     ELSE IF (t = "T1" /\ h = "a1") \/ (t = "T2" /\ h = "a2") THEN InitToken
     ELSE 0]]

Init ==
  /\ now = 1
  /\ calls = 0
  /\ closings = [i \in Ids |-> 0]
  /\ bal = InitBal
  /\ answer = NoAnswer
  /\ constructor(10, 500, OWNER)

CreateOffer ==
  /\ calls < MaxCalls
  /\ \E sender \in Accounts, args \in CreateArgs :
    /\ nextOfferId < MaxOffers
    /\ createChecks(Enter(Cur, sender, 0), args[1], args[2], args[3],
                    args[4], args[5]).ok
    /\ \E value \in ValueSet, env \in EnvSet :
         /\ value <= bal[ZERO][sender]
         /\ Commit(createOffer(Cur, sender, value, args[1], args[2], args[3],
                               args[4], args[5], args[6], env))

AcceptOffer ==
  /\ calls < MaxCalls
  /\ \E sender \in Accounts, offerId \in Ids :
    /\ acceptChecks(Enter(Cur, sender, 0), OfferAt(Cur, offerId), sender).ok
    /\ \E value \in ValueSet, env \in EnvSet :
         /\ value <= bal[ZERO][sender]
         /\ Commit(acceptOffer(Cur, sender, value, offerId, env))

RequestCancel ==
  /\ calls < MaxCalls
  /\ \E sender \in Accounts, offerId \in Ids :
    Commit(requestCancel(Cur, sender, offerId))

FinalizeCancel ==
  /\ calls < MaxCalls
  /\ \E sender \in Accounts, offerId \in Ids :
    /\ finalizeChecks(Enter(Cur, sender, 0), OfferAt(Cur, offerId), sender).ok
    /\ \E env \in EnvSet : Commit(finalizeCancel(Cur, sender, offerId, env))

ReclaimExpired ==
  /\ calls < MaxCalls
  /\ \E sender \in Accounts, offerId \in Ids :
    /\ reclaimChecks(Enter(Cur, sender, 0), OfferAt(Cur, offerId), sender).ok
    /\ \E env \in EnvSet : Commit(reclaimExpired(Cur, sender, offerId, env))

SetMinStake ==
  /\ calls < MaxCalls
  /\ \E sender \in Accounts, v \in StakeSet : Commit(setMinStake(Cur, sender, v))

SetPlatformFee ==
  /\ calls < MaxCalls
  /\ \E sender \in Accounts, v \in BpsSet : Commit(setPlatformFee(Cur, sender, v))

SetFeeRecipient ==
  /\ calls < MaxCalls
  /\ \E sender \in Accounts, v \in RecipientSet :
    Commit(setFeeRecipient(Cur, sender, v))

WithdrawFees ==
  /\ calls < MaxCalls
  /\ \E sender \in Accounts :
    /\ onlyOwner(Enter(Cur, sender, 0), sender).ok
    /\ \E env \in EnvSet : Commit(withdrawFees(Cur, sender, env))

\* block.timestamp advances between transactions.
Tick ==
  \E d \in TickSet :
    /\ now + d <= MaxTime
    /\ now' = now + d
    /\ UNCHANGED <<nextOfferId, offers, profiles, userOfferIds, minStake,
                   platformFeeBps, feeRecipient, accumulatedFees, bal,
                   closings, calls, answer>>

Next ==
  \/ CreateOffer
  \/ AcceptOffer
  \/ RequestCancel
  \/ FinalizeCancel
  \/ ReclaimExpired
  \/ SetMinStake
  \/ SetPlatformFee
  \/ SetFeeRecipient
  \/ WithdrawFees
  \/ Tick

Spec == Init /\ [][Next]_vars

TypeOK ==
  /\ now \in 1..MaxTime
  /\ nextOfferId \in 0..MaxOffers
  /\ DOMAIN offers = 0..(nextOfferId - 1)
  /\ \A t \in Tokens, h \in Holders : bal[t][h] >= 0

---------------------------------------------------------------------------
(* getReliabilityScore as a function of the profile and the clock: the     *)
(* profiles the ledger can hold for an account (no trade completed means   *)
(* no volume and no first trade) are the initial states, time passes and   *)
(* the score is queried.                                                   *)

ProfileSet ==
  { [tradesCompleted |-> 0, totalVolume |-> 0, offersCancelled |-> c,
     offersExpired |-> e, firstTradeAt |-> 0] : c \in 0..1, e \in 0..1 }
  \cup
  { [tradesCompleted |-> n, totalVolume |-> v, offersCancelled |-> c,
     offersExpired |-> e, firstTradeAt |-> f] :
       n \in 1..2, v \in {50, 99, 100, 150}, c \in 0..1, e \in 0..1,
       f \in {1, 2} }

\* 22.5 days, one second less, and 45 days
ScoreTickSet == {1943999, 1944000, 3888000}

InitScore ==
  /\ now = 2
  /\ calls = 0
  /\ closings = [i \in Ids |-> 0]
  /\ bal = InitBal
  /\ answer = NoAnswer
  /\ minStake = 10
  /\ platformFeeBps = 30
  /\ feeRecipient = OWNER
  /\ nextOfferId = 0
  /\ offers = <<>>
  /\ userOfferIds = [a \in Accounts |-> <<>>]
  /\ accumulatedFees = 0
  /\ \E p \in ProfileSet :
       profiles = [a \in Accounts |-> IF a = "a1" THEN p ELSE ZeroProfile]

ScoreTick ==
  \E d \in ScoreTickSet :
    /\ now + d <= ScoreMaxTime
    /\ now' = now + d
    /\ answer' = NoAnswer
    /\ UNCHANGED <<nextOfferId, offers, profiles, userOfferIds, minStake,
                   platformFeeBps, feeRecipient, accumulatedFees, bal,
                   closings, calls>>

GetReliabilityScore ==
  \E user \in Accounts :
    /\ answer' = [fn |-> "getReliabilityScore", user |-> user,
                  value |-> getReliabilityScore(Cur, user)]
    /\ UNCHANGED <<now, nextOfferId, offers, profiles, userOfferIds, minStake,
                   platformFeeBps, feeRecipient, accumulatedFees, bal,
                   closings, calls>>

NextScore ==
  \/ ScoreTick
  \/ GetReliabilityScore

SpecScore == InitScore /\ [][NextScore]_vars

---------------------------------------------------------------------------
(* getActiveOffersPaginated as a function of the offer ledger, the clock,  *)
(* the offset and the limit.  It reads nextOfferId, offers and the clock   *)
(* only: the initial states are the ledgers of up to PageOffers offers,    *)
(* each Open with one of two expiries or closed; time passes and pages are *)
(* queried.                                                                *)

PageOffers == 3
PageMaxTime == 7201

\* An offer of the ledger with a given status and expiry.
PageOffer(status, expiry) ==
  [maker |-> "a1", makerToken |-> ZERO, makerAmount |-> 100,
   takerToken |-> "T1", takerAmount |-> 50, stake |-> 10, expiry |-> expiry,
   cancelRequestedAt |-> 0, allowedTaker |-> ZERO,
   taker |-> IF status = "Settled" THEN "a2" ELSE ZERO, status |-> status]

PageOfferSet ==
  { PageOffer("Open", 3601), PageOffer("Open", 7201),
    PageOffer("Settled", 3601), PageOffer("Cancelled", 3601),
    PageOffer("Expired", 3601) }

\* offset and limit
PageArgs == 0..(PageOffers + 1)

InitPage ==
  /\ now = 1
  /\ calls = 0
  /\ closings = [i \in Ids |-> 0]
  /\ bal = InitBal
  /\ answer = NoAnswer
  /\ minStake = 10
  /\ platformFeeBps = 30
  /\ feeRecipient = OWNER
  /\ profiles = [a \in Accounts |-> ZeroProfile]
  /\ accumulatedFees = 0
  /\ \E n \in 0..PageOffers :
       /\ nextOfferId = n
       /\ \E list \in [1..n -> PageOfferSet] :
            offers = [i \in 0..(n - 1) |-> list[i + 1]]
       /\ userOfferIds = [a \in Accounts |->
            IF a = "a1" THEN [k \in 1..n |-> k - 1] ELSE <<>>]

PageTick ==
  /\ now + 3600 <= PageMaxTime
  /\ now' = now + 3600
  /\ answer' = NoAnswer
  /\ UNCHANGED <<nextOfferId, offers, profiles, userOfferIds, minStake,
                 platformFeeBps, feeRecipient, accumulatedFees, bal,
                 closings, calls>>

GetActiveOffersPaginated ==
  \E offset \in PageArgs, limit \in PageArgs :
    /\ answer' = [fn |-> "getActiveOffersPaginated", offset |-> offset,
                  limit |-> limit,
                  value |-> getActiveOffersPaginated(Cur, offset, limit)]
    /\ UNCHANGED <<now, nextOfferId, offers, profiles, userOfferIds, minStake,
                   platformFeeBps, feeRecipient, accumulatedFees, bal,
                   closings, calls>>

NextPage ==
  \/ PageTick
  \/ GetActiveOffersPaginated

SpecPage == InitPage /\ [][NextPage]_vars

---------------------------------------------------------------------------
(* The contract deployed with any constructor arguments: the state machine *)
(* of Spec, started from every deployment the constructor accepts.         *)

InitDeploy ==
  /\ now = 1
  /\ calls = 0
  /\ closings = [i \in Ids |-> 0]
  /\ bal = InitBal
  /\ answer = NoAnswer
  /\ \E _minStake \in StakeSet, _platformFeeBps \in BpsSet,
        _feeRecipient \in RecipientSet :
       constructor(_minStake, _platformFeeBps, _feeRecipient)

SpecDeploy == InitDeploy /\ [][Next]_vars

---------------------------------------------------------------------------
(* The contract with makers who come back for their expired offers: time   *)
(* goes on until every offer has expired, and a maker whose offer has      *)
(* expired reclaims it, ready to receive the refund.  These two steps are  *)
(* taken however many calls were made before; the rest is as in Spec.      *)

\* Time passes until the last expiry.
Elapse ==
  /\ now < MaxTime
  /\ now' = MaxTime
  /\ UNCHANGED <<nextOfferId, offers, profiles, userOfferIds, minStake,
                 platformFeeBps, feeRecipient, accumulatedFees, bal,
                 closings, calls, answer>>

\* The maker of an expired Open offer calls reclaimExpired and takes the
\* refund.
MakerReclaims ==
  \E offerId \in DOMAIN offers :
    /\ offers[offerId].status = "Open"
    /\ now >= offers[offerId].expiry
    /\ Commit(reclaimExpired(Cur, offers[offerId].maker, offerId, NoEnv))

NextLive ==
  \/ Next
  \/ Elapse
  \/ MakerReclaims

\* An Open offer has expired: its maker has a reclaim to make.
ReclaimDue ==
  \E offerId \in DOMAIN offers :
    /\ offers[offerId].status = "Open"
    /\ now >= offers[offerId].expiry

\* A step in which an expired Open offer is reclaimed.
Reclaimed ==
  \E offerId \in DOMAIN offers :
    /\ offers[offerId].status = "Open"
    /\ now >= offers[offerId].expiry
    /\ offers'[offerId].status = "Expired"

\* Time advances (weak fairness of Elapse), and makers come back: a reclaim
\* cannot stay due forever without one being made.  This is weak fairness
\* of MakerReclaims, written with ReclaimDue for its enabling condition.
SpecLive ==
  /\ Init
  /\ [][NextLive]_vars
  /\ WF_vars(Elapse)
  /\ ([]<>(~ReclaimDue) \/ []<><<Reclaimed>>_vars)

---------------------------------------------------------------------------
(* Properties.  A property about a call is stated for every reachable      *)
(* state and every input of the call: the call's result in that state is   *)
(* what the statement says, whether the call succeeds or reverts.          *)

Status(id) == OfferAt(Cur, id).status

\* A caller can send no more native value than it holds.
CanSend(sender, value) == value <= bal[ZERO][sender]

\* The requires of acceptOffer on the offer and the caller, as specified.
Eligible(o, sender) ==
  /\ o.status = "Open"
  /\ now < o.expiry
  /\ sender # o.maker
  /\ o.allowedTaker = ZERO \/ o.allowedTaker = sender

\* The fee of a leg as specified: floor(amount * feeBps / 10000).
SpecFee(amount) == (amount * platformFeeBps) \div 10000

\* The entries of a transfer log with a given tag.
Entries(log, tag) == {i \in DOMAIN log : log[i].tag = tag}

\* The log holds exactly one entry with this tag, and it is this transfer.
Paid(log, tag, token, to, amount) ==
  /\ Cardinality(Entries(log, tag)) = 1
  /\ \A i \in Entries(log, tag) :
       /\ log[i].token = token /\ log[i].from = THIS
       /\ log[i].to = to /\ log[i].amount = amount

RECURSIVE SumOut(_, _)
\* What left the escrow in an asset, the refund of excess value apart.
SumOut(log, token) ==
  IF log = <<>> THEN 0
  ELSE (IF Head(log).token = token /\ Head(log).from = THIS
           /\ Head(log).tag # "excess"
        THEN Head(log).amount ELSE 0) + SumOut(Tail(log), token)

(* C1: per offer at most one closing call (acceptOffer, finalizeCancel,    *)
(* reclaimExpired) ever succeeds, and once the status is not Open every    *)
(* acceptOffer, requestCancel, finalizeCancel and reclaimExpired on that   *)
(* id fails.                                                               *)
C1_NoDoubleSettlement ==
  \A id \in Ids :
    /\ closings[id] <= 1
    /\ Status(id) # "Open" =>
         \A sender \in Accounts, env \in EnvSet :
           /\ ~requestCancel(Cur, sender, id).ok
           /\ ~finalizeCancel(Cur, sender, id, env).ok
           /\ ~reclaimExpired(Cur, sender, id, env).ok
           /\ \A value \in ValueSet :
                CanSend(sender, value) =>
                  ~acceptOffer(Cur, sender, value, id, env).ok

C1_Witness ==
  \E id \in DOMAIN offers :
    /\ closings[id] = 1
    /\ offers[id].status = "Settled"
    /\ \E sender \in Accounts :
         /\ sender # offers[id].maker
         /\ CanSend(sender, 100)
         /\ acceptOffer(Cur, sender, 100, id, NoEnv).reason = "Offer not open"

\* A transfer inside acceptOffer(offerId) fails for this caller, value and
\* behaviour of the counterparties: the pull of the taker's side, the refund
\* of excess value, a fee transfer, a payout or the stake refund.
TransferFails(o, sender, value, env) ==
  \/ o.takerToken = ZERO /\ value < o.takerAmount
  \/ o.takerToken # ZERO
       /\ (sender \in env.denied \/ bal[o.takerToken][sender] < o.takerAmount)
  \/ o.takerToken = ZERO /\ value > o.takerAmount /\ sender \in env.rejects
  \/ o.takerToken # ZERO /\ SpecFee(o.takerAmount) > 0
       /\ feeRecipient \in env.denied
  \/ o.makerToken # ZERO /\ SpecFee(o.makerAmount) > 0
       /\ feeRecipient \in env.denied
  \/ (IF o.takerToken = ZERO THEN o.maker \in env.rejects
                             ELSE o.maker \in env.denied)
  \/ (IF o.makerToken = ZERO THEN sender \in env.rejects
                             ELSE sender \in env.denied)
  \/ o.stake > 0 /\ o.maker \in env.rejects

(* C2: an acceptOffer in which any transfer fails reverts as a whole, the  *)
(* state after it being the state before it; otherwise every leg is made   *)
(* and the offer is Settled.                                               *)
C2_Atomicity ==
  \A id \in DOMAIN offers, sender \in Accounts, value \in ValueSet,
     env \in EnvSet :
    LET o == offers[id]
        r == acceptOffer(Cur, sender, value, id, env)
    IN (Eligible(o, sender) /\ CanSend(sender, value)) =>
         IF TransferFails(o, sender, value, env)
         THEN ~r.ok /\ r.st = Cur /\ r.log = <<>>
         ELSE /\ r.ok
              /\ r.st.offers[id].status = "Settled"
              /\ Entries(r.log, "payMaker") # {}
              /\ Entries(r.log, "payTaker") # {}
              /\ o.stake > 0 => Entries(r.log, "stake") # {}

C2_Witness ==
  \E id \in DOMAIN offers, sender \in Accounts, value \in ValueSet :
    LET o == offers[id]
        env == [rejects |-> {o.maker}, denied |-> {}, hook |-> NoHook]
        r == acceptOffer(Cur, sender, value, id, env)
    IN /\ Eligible(o, sender) /\ CanSend(sender, value)
       /\ ~r.ok /\ r.reason = "Stake refund failed"
       /\ acceptOffer(Cur, sender, value, id, NoEnv).ok

(* C3: a successful acceptOffer pays the maker takerAmount - makerFee of   *)
(* takerAsset, the taker makerAmount - takerFee of makerAsset, credits the *)
(* platform exactly the two fees, returns exactly the stake to the maker,  *)
(* and per asset what leaves the escrow plus the fee kept equals what was  *)
(* deposited for the offer.                                                *)
C3_Conservation ==
  \A id \in DOMAIN offers, sender \in Accounts, value \in ValueSet,
     env \in EnvSet :
    LET o == offers[id]
        r == acceptOffer(Cur, sender, value, id, env)
        makerFee == SpecFee(o.takerAmount)
        takerFee == SpecFee(o.makerAmount)
        kept == (IF o.takerToken = ZERO THEN makerFee ELSE 0)
                + (IF o.makerToken = ZERO THEN takerFee ELSE 0)
        Deposit(t) == (IF o.makerToken = t THEN o.makerAmount ELSE 0)
                      + (IF o.takerToken = t THEN o.takerAmount ELSE 0)
                      + (IF t = ZERO THEN o.stake ELSE 0)
    IN (CanSend(sender, value) /\ r.ok) =>
         /\ Paid(r.log, "payMaker", o.takerToken, o.maker,
                 o.takerAmount - makerFee)
         /\ Paid(r.log, "payTaker", o.makerToken, sender,
                 o.makerAmount - takerFee)
         /\ IF o.stake > 0
            THEN Paid(r.log, "stake", ZERO, o.maker, o.stake)
            ELSE Entries(r.log, "stake") = {}
         /\ r.st.accumulatedFees = accumulatedFees + kept
         /\ IF o.takerToken # ZERO /\ makerFee > 0
            THEN Paid(r.log, "makerFee", o.takerToken, feeRecipient, makerFee)
            ELSE Entries(r.log, "makerFee") = {}
         /\ IF o.makerToken # ZERO /\ takerFee > 0
            THEN Paid(r.log, "takerFee", o.makerToken, feeRecipient, takerFee)
            ELSE Entries(r.log, "takerFee") = {}
         /\ SumOut(r.log, ZERO) + kept = Deposit(ZERO)
         /\ \A t \in Tokens \ {ZERO} : SumOut(r.log, t) = Deposit(t)

C3_Witness ==
  \E id \in DOMAIN offers, sender \in Accounts, value \in ValueSet :
    LET o == offers[id]
        r == acceptOffer(Cur, sender, value, id, NoEnv)
    IN /\ CanSend(sender, value) /\ r.ok
       /\ o.makerToken # ZERO /\ o.takerToken # ZERO
       /\ SpecFee(o.takerAmount) > 0 /\ SpecFee(o.makerAmount) > 0
       /\ o.stake > 0

\* The state as it would be with no cancellation pending on an offer.
NoCancelPending(id) == [Cur EXCEPT !.offers[id].cancelRequestedAt = 0]

(* C4: with a cancellation requested on an Open offer, acceptOffer gives   *)
(* exactly the result it would give with none pending: an eligible taker   *)
(* whose transfers go through settles the offer, cancelRequestedAt is 0    *)
(* afterwards and every finalizeCancel then fails.                         *)
C4_CooldownVoidable ==
  \A id \in DOMAIN offers, sender \in Accounts, value \in ValueSet,
     env \in EnvSet :
    LET o == offers[id]
        r == acceptOffer(Cur, sender, value, id, env)
        r0 == acceptOffer(NoCancelPending(id), sender, value, id, env)
    IN (o.status = "Open" /\ o.cancelRequestedAt > 0
        /\ CanSend(sender, value)) =>
         /\ r.ok = r0.ok /\ r.reason = r0.reason
         /\ (Eligible(o, sender) /\ ~TransferFails(o, sender, value, env))
              => r.ok
         /\ r.ok =>
              /\ r.st = r0.st /\ r.log = r0.log
              /\ r.st.offers[id].status = "Settled"
              /\ r.st.offers[id].cancelRequestedAt = 0
              /\ \A caller \in Accounts, env2 \in EnvSet :
                   ~finalizeCancel(r.st, caller, id, env2).ok
              /\ finalizeCancel(r.st, o.maker, id, NoEnv).reason
                   = "Offer not open"

C4_Witness ==
  \E id \in DOMAIN offers, sender \in Accounts, value \in ValueSet :
    LET o == offers[id] IN
    /\ o.status = "Open" /\ o.cancelRequestedAt > 0
    /\ o.cancelRequestedAt < now /\ now < o.cancelRequestedAt + 1800
    /\ CanSend(sender, value)
    /\ acceptOffer(Cur, sender, value, id, NoEnv).ok

\* The refund of finalizeCancel or reclaimExpired is refused by the maker.
RefundRefused(o, env) ==
  \/ (IF o.makerToken = ZERO THEN o.maker \in env.rejects
                             ELSE o.maker \in env.denied)
  \/ o.stake > 0 /\ o.maker \in env.rejects

\* What a successful finalizeCancel or reclaimExpired returns to the maker:
\* makerAmount of makerAsset and the stake, and nothing else moves.
Refunded(o, r) ==
  /\ Paid(r.log, "refund", o.makerToken, o.maker, o.makerAmount)
  /\ IF o.stake > 0 THEN Paid(r.log, "stake", ZERO, o.maker, o.stake)
                    ELSE Entries(r.log, "stake") = {}
  /\ Len(r.log) = IF o.stake > 0 THEN 2 ELSE 1
  /\ r.st.accumulatedFees = accumulatedFees
  /\ \A t \in Tokens :
       r.st.bal[t][o.maker] =
         bal[t][o.maker] + (IF t = o.makerToken THEN o.makerAmount ELSE 0)
                         + (IF t = ZERO THEN o.stake ELSE 0)

C6_StatusTransitions ==
  [][\A id \in Ids :
       LET before == OfferAt(Cur, id).status
           after == OfferAt(Cur', id).status
       IN after # before =>
            /\ before = "Open"
            /\ \/ /\ after = "Settled"
                  /\ \E sender \in Accounts, value \in ValueSet,
                        env \in EnvSet :
                       LET r == acceptOffer(Cur, sender, value, id, env)
                       IN r.ok /\ r.st = Cur'
               \/ /\ after = "Cancelled"
                  /\ \E sender \in Accounts, env \in EnvSet :
                       LET r == finalizeCancel(Cur, sender, id, env)
                       IN r.ok /\ r.st = Cur'
               \/ /\ after = "Expired"
                  /\ \E sender \in Accounts, env \in EnvSet :
                       LET r == reclaimExpired(Cur, sender, id, env)
                       IN r.ok /\ r.st = Cur']_vars

C6_Witness ==
  /\ nextOfferId = 2
  /\ offers[0].status \in {"Settled", "Expired"}
  /\ offers[1].status = "Open"
  /\ calls = 3

\* The taker field of every offer of a state is as C7 says.
TakerAsSpecified(S) ==
  \A id \in DOMAIN S.offers :
    LET o == S.offers[id] IN
    IF o.status = "Settled"
    THEN /\ o.taker # ZERO
         /\ o.taker # o.maker
         /\ o.allowedTaker # ZERO => o.taker = o.allowedTaker
    ELSE o.taker = ZERO

(* C7: a Settled offer has a taker that is not zero, is not its maker and  *)
(* is its allowedTaker when one is set; any other offer has taker zero;    *)
(* the taker changes only from zero, in the acceptOffer that settles the   *)
(* offer, to the caller of that acceptOffer.                               *)
C7_TakerSetOnce ==
  [][/\ TakerAsSpecified(Cur)
     /\ TakerAsSpecified(Cur')
     /\ \A id \in Ids :
          OfferAt(Cur', id).taker # OfferAt(Cur, id).taker =>
            /\ OfferAt(Cur, id).taker = ZERO
            /\ OfferAt(Cur, id).status = "Open"
            /\ OfferAt(Cur', id).status = "Settled"
            /\ \E value \in ValueSet, env \in EnvSet :
                 LET r == acceptOffer(Cur, OfferAt(Cur', id).taker, value,
                                      id, env)
                 IN r.ok /\ r.st = Cur']_vars

C7_Witness ==
  \E id \in DOMAIN offers :
    /\ offers[id].status = "Settled"
    /\ offers[id].allowedTaker # ZERO
    /\ offers[id].taker = offers[id].allowedTaker

(* C8: for an Open offer acceptOffer succeeds only while now < expiry and  *)
(* reclaimExpired only when now >= expiry, so the two are never both       *)
(* enabled.                                                                *)
C8_AcceptOrReclaim ==
  \A id \in DOMAIN offers :
    LET o == offers[id]
        canAccept == \E sender \in Accounts, value \in ValueSet,
                        env \in EnvSet :
                       /\ CanSend(sender, value)
                       /\ acceptOffer(Cur, sender, value, id, env).ok
        canReclaim == \E sender \in Accounts, env \in EnvSet :
                        reclaimExpired(Cur, sender, id, env).ok
    IN o.status = "Open" =>
         /\ canAccept => now < o.expiry
         /\ canReclaim => now >= o.expiry
         /\ ~(canAccept /\ canReclaim)

C8_Witness ==
  \E id \in DOMAIN offers :
    LET o == offers[id] IN
    /\ o.status = "Open" /\ now = o.expiry
    /\ reclaimExpired(Cur, o.maker, id, NoEnv).ok
    /\ \E sender \in Accounts :
         /\ Eligible([o EXCEPT !.expiry = now + 1], sender)
         /\ CanSend(sender, 100)
         /\ acceptOffer(Cur, sender, 100, id, NoEnv).reason = "Offer expired"

\* The stake entry of a transfer log is the offer's stake, paid to its maker.
StakePaid(o, log) ==
  IF o.stake > 0 THEN Paid(log, "stake", ZERO, o.maker, o.stake)
                 ELSE Entries(log, "stake") = {}

C10_StakeCaptured ==
  /\ \A sender \in Accounts, v \in StakeSet :
       LET r == setMinStake(Cur, sender, v)
       IN /\ r.st.offers = offers
          /\ r.ok => r.st.minStake = v
  /\ \A sender \in Accounts, value \in ValueSet, args \in CreateArgs,
        env \in EnvSet :
       LET r == createOffer(Cur, sender, value, args[1], args[2], args[3],
                            args[4], args[5], args[6], env)
       IN (CanSend(sender, value) /\ r.ok) =>
            /\ r.st.offers[nextOfferId].stake = minStake
            /\ \A id \in DOMAIN offers : r.st.offers[id] = offers[id]
  /\ \A id \in DOMAIN offers, sender \in Accounts, env \in EnvSet :
       LET o == offers[id]
           f == finalizeCancel(Cur, sender, id, env)
           x == reclaimExpired(Cur, sender, id, env)
       IN /\ f.ok => StakePaid(o, f.log) /\ f.st.offers[id].stake = o.stake
          /\ x.ok => StakePaid(o, x.log) /\ x.st.offers[id].stake = o.stake
          /\ \A value \in ValueSet :
               LET a == acceptOffer(Cur, sender, value, id, env)
               IN (CanSend(sender, value) /\ a.ok) =>
                    StakePaid(o, a.log) /\ a.st.offers[id].stake = o.stake

C10_Witness ==
  /\ nextOfferId = 2
  /\ offers[0].stake = 10 /\ offers[1].stake = 0 /\ minStake = 0
  /\ offers[0].status = "Open"
  /\ \E sender \in Accounts, value \in ValueSet :
       /\ CanSend(sender, value)
       /\ acceptOffer(Cur, sender, value, 0, NoEnv).ok

\* What a successful acceptOffer (result r, caller sender) of offer o pays
\* when the fee rate is bps: each fee is the floor of its leg's share.
PaysAtRate(o, sender, r, bps) ==
  LET makerFee == (o.takerAmount * bps) \div 10000
      takerFee == (o.makerAmount * bps) \div 10000
  IN /\ makerFee * 10000 <= o.takerAmount * bps
     /\ o.takerAmount * bps < (makerFee + 1) * 10000
     /\ Paid(r.log, "payMaker", o.takerToken, o.maker,
             o.takerAmount - makerFee)
     /\ Paid(r.log, "payTaker", o.makerToken, sender,
             o.makerAmount - takerFee)
     /\ IF o.takerToken # ZERO /\ makerFee > 0
        THEN Paid(r.log, "makerFee", o.takerToken, feeRecipient, makerFee)
        ELSE Entries(r.log, "makerFee") = {}
     /\ IF o.makerToken # ZERO /\ takerFee > 0
        THEN Paid(r.log, "takerFee", o.makerToken, feeRecipient, takerFee)
        ELSE Entries(r.log, "takerFee") = {}

(* C11: a successful acceptOffer charges makerFee = floor(takerAmount *     *)
(* platformFeeBps / 10000) and takerFee = floor(makerAmount *              *)
(* platformFeeBps / 10000) at the rate in force when it is accepted, also  *)
(* when setPlatformFee changed the rate after the offer was created; 100   *)
(* for 50 at 30 bps pays 50 and 100 with both fees 0.                      *)
C11_FeeAtAcceptance ==
  \A id \in DOMAIN offers, sender \in Accounts, value \in ValueSet,
     env \in EnvSet :
    LET o == offers[id]
        r == acceptOffer(Cur, sender, value, id, env)
    IN CanSend(sender, value) =>
         /\ r.ok =>
              /\ PaysAtRate(o, sender, r, platformFeeBps)
              /\ (platformFeeBps = 30 /\ o.makerAmount = 100
                  /\ o.takerAmount = 50) =>
                   /\ Paid(r.log, "payMaker", o.takerToken, o.maker, 50)
                   /\ Paid(r.log, "payTaker", o.makerToken, sender, 100)
                   /\ r.st.accumulatedFees = accumulatedFees
         /\ \A bps \in BpsSet :
              LET s == setPlatformFee(Cur, OWNER, bps)
                  r2 == acceptOffer(s.st, sender, value, id, env)
              IN (s.ok /\ r2.ok) =>
                   /\ s.st.offers = offers
                   /\ PaysAtRate(o, sender, r2, bps)

C11_Witness ==
  \E id \in DOMAIN offers, sender \in Accounts, value \in ValueSet :
    LET o == offers[id]
        s == setPlatformFee(Cur, OWNER, 500)
    IN /\ platformFeeBps = 30 /\ o.makerAmount = 100 /\ o.takerAmount = 50
       /\ CanSend(sender, value)
       /\ acceptOffer(Cur, sender, value, id, NoEnv).ok
       /\ s.ok /\ acceptOffer(s.st, sender, value, id, NoEnv).ok

(* C12: the platform fee is charged to the taker only: a successful        *)
(* acceptOffer pays the maker the full takerAmount, deducts the fee only   *)
(* from what the taker receives, and takes no fee in takerAsset.           *)
C12_FeeChargedToTaker ==
  \A id \in DOMAIN offers, sender \in Accounts, value \in ValueSet,
     env \in EnvSet :
    LET o == offers[id]
        r == acceptOffer(Cur, sender, value, id, env)
    IN (CanSend(sender, value) /\ r.ok) =>
         /\ Paid(r.log, "payMaker", o.takerToken, o.maker, o.takerAmount)
         /\ Paid(r.log, "payTaker", o.makerToken, sender,
                 o.makerAmount - SpecFee(o.makerAmount))
         /\ Entries(r.log, "makerFee") = {}
         /\ o.takerToken = ZERO =>
              r.st.accumulatedFees =
                accumulatedFees
                + (IF o.makerToken = ZERO THEN SpecFee(o.makerAmount) ELSE 0)

\* The growth of an account's totalVolume over a call with result r.
VolumeGain(r, a) == r.st.profiles[a].totalVolume - profiles[a].totalVolume

(* C13 as stated: on a successful acceptOffer the maker's totalVolume      *)
(* grows by the taker-side amount it is paid and the taker's by the        *)
(* maker-side amount it is paid, never by what the party itself deposited. *)
C13_VolumeReceived ==
  \A id \in DOMAIN offers, sender \in Accounts, value \in ValueSet,
     env \in EnvSet :
    LET o == offers[id]
        r == acceptOffer(Cur, sender, value, id, env)
    IN (CanSend(sender, value) /\ r.ok) =>
         /\ VolumeGain(r, o.maker) = o.takerAmount
         /\ VolumeGain(r, sender) = o.makerAmount

(* C13 amended: on a successful acceptOffer each party's totalVolume grows *)
(* by the amount that party itself deposited, the maker's by makerAmount   *)
(* and the taker's by takerAmount; both gain one completed trade and no    *)
(* other profile changes.                                                  *)
C13_VolumeDeposited ==
  \A id \in DOMAIN offers, sender \in Accounts, value \in ValueSet,
     env \in EnvSet :
    LET o == offers[id]
        r == acceptOffer(Cur, sender, value, id, env)
    IN (CanSend(sender, value) /\ r.ok) =>
         /\ VolumeGain(r, o.maker) = o.makerAmount
         /\ VolumeGain(r, sender) = o.takerAmount
         /\ \A a \in {o.maker, sender} :
              r.st.profiles[a].tradesCompleted
                = profiles[a].tradesCompleted + 1
         /\ \A a \in Accounts \ {o.maker, sender} :
              r.st.profiles[a] = profiles[a]

C13_Witness ==
  \E id \in DOMAIN offers :
    LET o == offers[id] IN
    /\ o.status = "Settled"
    /\ o.makerAmount # o.takerAmount
    /\ profiles[o.maker].totalVolume = o.makerAmount
    /\ profiles[o.taker].totalVolume = o.takerAmount

\* The state at a later time, nothing else having happened.
AtTime(t) == [Cur EXCEPT !.now = t]

\* Times from now on at which a score is queried: now, 45 days, one second
\* short of 90 days, 90 days and 200 days later.
LaterTimes == {now, now + 3888000, now + 7775999, now + 7776000,
               now + 17280000}

(* C14: in every reachable state and at every later time the reliability   *)
(* score of every account is between 0 and 100, an account that completed  *)
(* no trade has totalVolume 0 and firstTradeAt 0, and its score is 0, also *)
(* when it has cancelled or expired offers.                                *)
C14_ScoreBounds ==
  \A a \in Accounts, t \in LaterTimes :
    LET score == getReliabilityScore(AtTime(t), a) IN
    /\ 0 <= score /\ score <= 100
    /\ profiles[a].tradesCompleted = 0 =>
         /\ profiles[a].totalVolume = 0
         /\ profiles[a].firstTradeAt = 0
         /\ score = 0

C14_Witness ==
  \E a \in Accounts :
    /\ profiles[a].tradesCompleted = 0
    /\ profiles[a].offersCancelled + profiles[a].offersExpired > 0
    /\ getReliabilityScore(AtTime(now + 17280000), a) = 0

\* The score as specified, for a profile p at time t; with fromFirstTrade
\* the age component is 0 for a profile whose firstTradeAt is 0.
SpecifiedScore(p, t, fromFirstTrade) ==
  LET total == p.tradesCompleted + p.offersCancelled + p.offersExpired
      days == (t - p.firstTradeAt) \div 86400
      aged == IF days >= 90 THEN 10 ELSE (days * 10) \div 90
      age == IF fromFirstTrade /\ p.firstTradeAt = 0 THEN 0 ELSE aged
      volume == IF p.totalVolume >= 100 THEN 10
                ELSE (p.totalVolume * 10) \div 100
  IN IF total = 0 THEN 0
     ELSE (p.tradesCompleted * 80) \div total + age + volume

(* C15 as stated: getReliabilityScore returns 0 when tradesCompleted +     *)
(* offersCancelled + offersExpired is 0 and otherwise floor(tradesCompleted*)
(* * 80 / total) + age + volume, age being 10 from 90 whole days after     *)
(* firstTradeAt and floor(days * 10 / 90) before, volume being 10 from the *)
(* cap on and floor(totalVolume * 10 / cap) below it, also for a profile   *)
(* whose firstTradeAt is 0.                                                *)
C15_ScoreFormulaAsStated ==
  answer.fn = "getReliabilityScore" =>
    answer.value = SpecifiedScore(profiles[answer.user], now, FALSE)

(* C15 amended: the same formula, except that the age component is 0 for a *)
(* profile whose firstTradeAt is 0.                                        *)
C15_ScoreFormula ==
  answer.fn = "getReliabilityScore" =>
    answer.value = SpecifiedScore(profiles[answer.user], now, TRUE)

C15_Witness ==
  /\ answer.fn = "getReliabilityScore"
  /\ profiles[answer.user].tradesCompleted = 1
  /\ profiles[answer.user].offersCancelled + profiles[answer.user].offersExpired = 2
  /\ profiles[answer.user].totalVolume = 99
  /\ (now - profiles[answer.user].firstTradeAt) \div 86400 = 89
  /\ answer.value = 26 + 9 + 9

RECURSIVE Ascending(_)
\* The elements of a finite set of numbers in ascending order.
Ascending(set) ==
  IF set = {} THEN <<>>
  ELSE LET least == CHOOSE x \in set : \A y \in set : x <= y
       IN <<least>> \o Ascending(set \ {least})

(* C16: getActiveOffersPaginated(offset, limit) never fails, returns as    *)
(* totalActive the number of offers that are Open with now < expiry, and   *)
(* returns exactly the elements at positions [offset, min(offset + limit,  *)
(* totalActive)) of those offers in ascending id order: an empty page when *)
(* offset >= totalActive or limit = 0, the remainder when limit exceeds    *)
(* what is left.                                                           *)
C16_Pagination ==
  answer.fn = "getActiveOffersPaginated" =>
    LET active == {i \in 0..(nextOfferId - 1) :
                     offers[i].status = "Open" /\ now < offers[i].expiry}
        total == Cardinality(active)
        list == Ascending(active)
        upto == IF answer.offset + answer.limit < total
                THEN answer.offset + answer.limit ELSE total
        expected == SubSeq(list, answer.offset + 1, upto)
        v == answer.value
    IN /\ v.ok
       /\ v.totalActive = total
       /\ v.ids = expected
       /\ v.activeOffers = [k \in 1..Len(expected) |-> offers[expected[k]]]
       /\ (answer.offset >= total \/ answer.limit = 0) => v.ids = <<>>
       /\ (answer.offset < total /\ answer.limit > total - answer.offset) =>
            Len(v.ids) = total - answer.offset

C16_Witness ==
  /\ answer.fn = "getActiveOffersPaginated"
  /\ nextOfferId = 3
  /\ offers[0].status = "Open" /\ offers[1].status = "Open"
  /\ offers[2].status = "Open"
  /\ now = 3601
  /\ offers[0].expiry = 7201 /\ offers[1].expiry = 3601
  /\ offers[2].expiry = 7201
  /\ answer.offset = 1 /\ answer.limit = 3
  /\ answer.value.totalActive = 2
  /\ answer.value.ids = <<2>>

\* Every transfer of a call with result r was made with the ledger already
\* at the values the call leaves it with.
EffectsFirst(r) == \A k \in DOMAIN r.seen : r.seen[k] = Ledger(r.st)

(* C17: in createOffer, acceptOffer, finalizeCancel, reclaimExpired and    *)
(* withdrawFees no asset is moved (pull, refund of excess value, fee       *)
(* transfer, payout, stake refund) before the ledger writes of the call    *)
(* have reached their final values; in acceptOffer the trade is recorded   *)
(* for both parties before any transfer.                                   *)
C17_EffectsBeforeTransfers ==
  \A sender \in Accounts, env \in EnvSet :
    /\ withdrawFees(Cur, sender, env).ok =>
         EffectsFirst(withdrawFees(Cur, sender, env))
    /\ \A id \in DOMAIN offers :
         /\ finalizeCancel(Cur, sender, id, env).ok =>
              EffectsFirst(finalizeCancel(Cur, sender, id, env))
         /\ reclaimExpired(Cur, sender, id, env).ok =>
              EffectsFirst(reclaimExpired(Cur, sender, id, env))
    /\ \A value \in ValueSet :
         CanSend(sender, value) =>
           /\ \A id \in DOMAIN offers :
                LET r == acceptOffer(Cur, sender, value, id, env)
                IN r.ok =>
                     /\ EffectsFirst(r)
                     /\ \A k \in DOMAIN r.seen :
                          r.seen[k].profiles = r.st.profiles
           /\ \A args \in CreateArgs :
                LET r == createOffer(Cur, sender, value, args[1], args[2],
                                     args[3], args[4], args[5], args[6], env)
                IN r.ok => EffectsFirst(r)

---------------------------------------------------------------------------
\* The arguments a nested call to fn is made with.
HookArgs(fn) ==
  CASE fn = "setMinStake" -> StakeSet
    [] fn = "setPlatformFee" -> BpsSet
    [] fn = "setFeeRecipient" -> RecipientSet
    [] fn = "createOffer" -> CreateArgs
    [] OTHER -> Ids

\* The recipient `by` calls fn(arg) back while it is being paid.
HookEnv(by, fn, arg) ==
  [rejects |-> {}, denied |-> {},
   hook |-> [by |-> by, fn |-> fn, arg |-> arg, value |-> 0]]

NestedFail(r) == \A k \in DOMAIN r.nested : ~r.nested[k].ok

(* C18: every state-changing function is protected by the re-entrancy     *)
(* guard: whatever state-changing function an account calls back while a  *)
(* createOffer, acceptOffer, finalizeCancel, reclaimExpired or            *)
(* withdrawFees is paying it, requestCancel and the setters included, the  *)
(* nested call fails.                                                      *)
C18_ReentrancyGuard ==
  \A by \in Accounts, fn \in StateChanging :
    \A arg \in HookArgs(fn) :
      LET env == HookEnv(by, fn, arg) IN
      \A sender \in Accounts :
        /\ withdrawFees(Cur, sender, env).ok
             => NestedFail(withdrawFees(Cur, sender, env))
        /\ \A id \in DOMAIN offers :
             /\ finalizeCancel(Cur, sender, id, env).ok
                  => NestedFail(finalizeCancel(Cur, sender, id, env))
             /\ reclaimExpired(Cur, sender, id, env).ok
                  => NestedFail(reclaimExpired(Cur, sender, id, env))
        /\ \A value \in ValueSet : CanSend(sender, value) =>
             /\ \A id \in DOMAIN offers :
                  acceptOffer(Cur, sender, value, id, env).ok
                    => NestedFail(acceptOffer(Cur, sender, value, id, env))
             /\ \A args \in CreateArgs :
                  LET r == createOffer(Cur, sender, value, args[1], args[2],
                                       args[3], args[4], args[5], args[6],
                                       env)
                  IN r.ok => NestedFail(r)

---------------------------------------------------------------------------
Params(S) == <<S.minStake, S.platformFeeBps, S.feeRecipient>>

\* A call that failed and left everything as it was.
Refused(r) == ~r.ok /\ r.st = Cur

\* No operation open to every account changes the three parameters.
ParamsKept(env) ==
  \A sender \in Accounts :
    /\ \A id \in Ids :
         /\ Params(requestCancel(Cur, sender, id).st) = Params(Cur)
         /\ Params(finalizeCancel(Cur, sender, id, env).st) = Params(Cur)
         /\ Params(reclaimExpired(Cur, sender, id, env).st) = Params(Cur)
    /\ \A value \in ValueSet : CanSend(sender, value) =>
         /\ \A id \in Ids :
              Params(acceptOffer(Cur, sender, value, id, env).st) = Params(Cur)
         /\ \A args \in CreateArgs :
              Params(createOffer(Cur, sender, value, args[1], args[2],
                                 args[3], args[4], args[5], args[6],
                                 env).st) = Params(Cur)

Setters == {"setMinStake", "setPlatformFee", "setFeeRecipient"}

(* C19: setMinStake, setPlatformFee, setFeeRecipient and withdrawFees      *)
(* called by an account other than the owner fail and leave all state      *)
(* unchanged; createOffer, acceptOffer, requestCancel, finalizeCancel and  *)
(* reclaimExpired never change minStake, platformFeeBps or feeRecipient,   *)
(* also when a recipient other than the owner calls a setter back while    *)
(* it is being paid.                                                       *)
C19_OnlyOwner ==
  /\ \A sender \in Accounts \ {OWNER} :
       /\ \A v \in StakeSet : Refused(setMinStake(Cur, sender, v))
       /\ \A v \in BpsSet : Refused(setPlatformFee(Cur, sender, v))
       /\ \A v \in RecipientSet : Refused(setFeeRecipient(Cur, sender, v))
       /\ \A env \in EnvSet : Refused(withdrawFees(Cur, sender, env))
  /\ \A env \in EnvSet : ParamsKept(env)
  /\ \A by \in Accounts \ {OWNER}, fn \in Setters :
       \A arg \in HookArgs(fn) : ParamsKept(HookEnv(by, fn, arg))

\* The owner has lowered minStake to 0 and there are fees to withdraw: a1
\* can neither raise it again nor withdraw, the owner can do both.
C19_Witness ==
  /\ minStake = 0
  /\ accumulatedFees > 0
  /\ setMinStake(Cur, "a1", 10).reason = "OwnableUnauthorizedAccount"
  /\ withdrawFees(Cur, "a1", NoEnv).reason = "OwnableUnauthorizedAccount"
  /\ setMinStake(Cur, OWNER, 10).st.minStake = 10
  /\ withdrawFees(Cur, OWNER, NoEnv).ok

---------------------------------------------------------------------------
\* The fee kept from a leg, the difference between the leg and what its
\* receiver was paid, is at most 5% of the leg and at most the leg.
FeeWithinCap(leg, log, tag) ==
  /\ Cardinality(Entries(log, tag)) = 1
  /\ \A i \in Entries(log, tag) :
       LET fee == leg - log[i].amount
       IN fee >= 0 /\ fee <= leg /\ fee * 10000 <= leg * 500

(* C20: platformFeeBps <= 500 in every reachable state, whatever the       *)
(* arguments of the constructor were; setPlatformFee with a larger value   *)
(* fails and changes nothing; in every settlement each fee is at most 5%   *)
(* of its leg and never more than the leg.                                 *)
C20_FeeCap ==
  /\ platformFeeBps <= 500
  /\ \A bps \in BpsSet : bps > 500 => Refused(setPlatformFee(Cur, OWNER, bps))
  /\ \A id \in DOMAIN offers, sender \in Accounts, value \in ValueSet,
        env \in EnvSet :
       LET o == offers[id]
           r == acceptOffer(Cur, sender, value, id, env)
       IN (CanSend(sender, value) /\ r.ok) =>
            /\ FeeWithinCap(o.takerAmount, r.log, "payMaker")
            /\ FeeWithinCap(o.makerAmount, r.log, "payTaker")

\* At the cap itself an offer of 100 for 50 is accepted: the taker is paid
\* 95 and the maker 48, and the owner cannot raise the rate to 501.
C20_Witness ==
  /\ platformFeeBps = 500
  /\ setPlatformFee(Cur, OWNER, 501).reason = "Fee exceeds cap"
  /\ \E id \in DOMAIN offers, sender \in Accounts, value \in ValueSet :
       LET o == offers[id]
           r == acceptOffer(Cur, sender, value, id, NoEnv)
       IN /\ CanSend(sender, value) /\ r.ok
          /\ o.makerAmount = 100 /\ o.takerAmount = 50
          /\ Paid(r.log, "payTaker", o.makerToken, sender, 95)
          /\ Paid(r.log, "payMaker", o.takerToken, o.maker, 48)

---------------------------------------------------------------------------
\* One of the conditions under which createOffer is said to be rejected.
CreateRejected(sender, value, args) ==
  \/ args[2] = 0
  \/ args[4] = 0
  \/ args[1] = args[3]
  \/ args[5] < now + 3600
  \/ value < minStake + (IF args[1] = ZERO THEN args[2] ELSE 0)

\* The transfers createOffer makes go through: the sender takes the excess
\* back, and holds and releases the tokens it offers.
CreateTransfersGo(sender, value, args, env) ==
  LET due == minStake + (IF args[1] = ZERO THEN args[2] ELSE 0)
  IN /\ value > due => sender \notin env.rejects
     /\ args[1] # ZERO =>
          /\ sender \notin env.denied
          /\ bal[args[1]][sender] >= args[2]

\* The call appended the offer, Open, under the next id.
Appended(r, sender, args) ==
  /\ r.ok
  /\ r.st.nextOfferId = nextOfferId + 1
  /\ DOMAIN r.st.offers = DOMAIN offers \cup {nextOfferId}
  /\ \A i \in DOMAIN offers : r.st.offers[i] = offers[i]
  /\ r.st.offers[nextOfferId] =
       [maker |-> sender, makerToken |-> args[1], makerAmount |-> args[2],
        takerToken |-> args[3], takerAmount |-> args[4], stake |-> minStake,
        expiry |-> args[5], cancelRequestedAt |-> 0,
        allowedTaker |-> args[6], taker |-> ZERO, status |-> "Open"]
  /\ r.st.userOfferIds =
       [userOfferIds EXCEPT ![sender] = Append(@, nextOfferId)]

(* C21: createOffer is rejected with nothing changed when an amount is 0,  *)
(* the assets are equal, expiry < now + 3600 (expiry = now + 3600 is       *)
(* accepted) or the value is below what is due; otherwise the offer is     *)
(* appended, Open, with cancelRequestedAt 0 and no taker, unless a         *)
(* transfer of the call fails (the refund of the excess, the pull of the   *)
(* offered tokens), which aborts the call as every failed transfer does.   *)
C21_CreateOffer ==
  \A sender \in Accounts, value \in ValueSet, args \in CreateArgs,
     env \in EnvSet :
    LET r == createOffer(Cur, sender, value, args[1], args[2], args[3],
                         args[4], args[5], args[6], env)
    IN CanSend(sender, value) =>
         IF CreateRejected(sender, value, args)
              \/ ~CreateTransfersGo(sender, value, args, env)
         THEN Refused(r)
         ELSE Appended(r, sender, args)

\* An offer was created with expiry = now + 3600; one second less is still
\* refused, and a2, who holds no T1, cannot offer T1.
C21_Witness ==
  /\ now = 1
  /\ nextOfferId = 1
  /\ offers[0].expiry = now + 3600
  /\ offers[0].status = "Open"
  /\ createOffer(Cur, "a1", 110, ZERO, 100, "T1", 50, 3600, ZERO,
                 NoEnv).reason = "Expiry too soon (min 1h)"
  /\ createOffer(Cur, "a1", 110, ZERO, 100, "T1", 50, 3601, ZERO, NoEnv).ok
  /\ createOffer(Cur, "a2", 100, "T1", 50, ZERO, 100, 3601, "a2",
                 NoEnv).reason = "SafeERC20FailedOperation"

---------------------------------------------------------------------------
\* Offer id is Open, its cooldown has elapsed and its expiry has passed.
Racing(id) ==
  /\ offers[id].status = "Open"
  /\ offers[id].cancelRequestedAt > 0
  /\ now >= offers[id].cancelRequestedAt + 1800
  /\ now >= offers[id].expiry

\* After the call that gave r, neither closing call succeeds on the offer.
ClosedFor(r, o, id) ==
  \A env \in EnvSet, caller \in Accounts :
    /\ ~finalizeCancel(r.st, caller, id, env).ok
    /\ ~reclaimExpired(r.st, caller, id, env).ok

(* C22: when an Open offer is past both its cooldown and its expiry, the   *)
(* maker's finalizeCancel and reclaimExpired are both enabled: either one, *)
(* executed first, succeeds and fixes the status (Cancelled with           *)
(* offersCancelled + 1, or Expired with offersExpired + 1), returns        *)
(* makerAmount and stake once, and makes the other fail.                   *)
C22_CancelReclaimRace ==
  \A id \in DOMAIN offers, env \in EnvSet :
    LET o == offers[id]
        p == profiles[o.maker]
        f == finalizeCancel(Cur, o.maker, id, env)
        e == reclaimExpired(Cur, o.maker, id, env)
    IN (Racing(id) /\ ~RefundRefused(o, env)) =>
         /\ f.ok
         /\ f.st.offers[id].status = "Cancelled"
         /\ f.st.profiles[o.maker] =
              [p EXCEPT !.offersCancelled = @ + 1]
         /\ Refunded(o, f)
         /\ ClosedFor(f, o, id)
         /\ e.ok
         /\ e.st.offers[id].status = "Expired"
         /\ e.st.profiles[o.maker] =
              [p EXCEPT !.offersExpired = @ + 1]
         /\ Refunded(o, e)
         /\ ClosedFor(e, o, id)

\* The race itself: an offer both calls of the maker would close now.
C22_Witness ==
  \E id \in DOMAIN offers :
    /\ Racing(id)
    /\ offers[id].stake > 0
    /\ finalizeCancel(Cur, offers[id].maker, id, NoEnv).ok
    /\ reclaimExpired(Cur, offers[id].maker, id, NoEnv).ok

---------------------------------------------------------------------------
\* getUserOffers(a) lists, each once, the offers a is maker or taker of.
IndexExact(S) ==
  \A a \in Accounts :
    LET ids == getUserOffers(S, a) IN
    /\ {ids[k] : k \in DOMAIN ids} =
         {id \in DOMAIN S.offers :
            S.offers[id].maker = a \/ S.offers[id].taker = a}
    /\ \A j, k \in DOMAIN ids : ids[j] = ids[k] => j = k

(* C23: getUserOffers(a) is exactly the ids of the offers of which a is    *)
(* the maker or the taker, each once; a step changes it only by appending  *)
(* one id at its end, the id of the offer a creates in that step or of     *)
(* the offer a's acceptOffer settles in that step, so the entries stand in *)
(* the order of those events and are never removed or reordered.           *)
C23_UserOffers ==
  [][/\ IndexExact(Cur)
     /\ IndexExact(Cur')
     /\ \A a \in Accounts :
          \/ getUserOffers(Cur', a) = getUserOffers(Cur, a)
          \/ \E id \in Ids :
               /\ getUserOffers(Cur', a) = Append(getUserOffers(Cur, a), id)
               /\ \/ /\ id = nextOfferId
                     /\ id \notin DOMAIN offers
                     /\ OfferAt(Cur', id).maker = a
                     /\ OfferAt(Cur', id).status = "Open"
                  \/ /\ OfferAt(Cur, id).status = "Open"
                     /\ OfferAt(Cur, id).maker # a
                     /\ OfferAt(Cur', id).status = "Settled"
                     /\ OfferAt(Cur', id).taker = a]_vars

\* a1 created offer 1 and then settled offer 0 as its taker: its list holds
\* the two ids in that order.
C23_Witness ==
  /\ nextOfferId = 2
  /\ offers[1].maker = "a1"
  /\ offers[0].taker = "a1"
  /\ offers[0].status = "Settled"
  /\ getUserOffers(Cur, "a1") = <<1, 0>>
  /\ getUserOffers(Cur, offers[0].maker) = <<0>>

---------------------------------------------------------------------------
\* The reasons of the preconditions on an existing offer (lines 201-207,
\* 280-282, 294-300, 324-326).
StateReasons ==
  {"Not the maker", "Offer not open", "Cancel already requested",
   "Cancel not requested", "Cooldown not elapsed", "Not yet expired",
   "Offer expired", "Cannot accept own offer", "Not allowed taker"}

\* The call was rejected for a reason of its own, none of StateReasons.
NotFound(r) == ~r.ok /\ r.reason # "" /\ r.reason \notin StateReasons

(* C24: the reasons for wrong caller, wrong status, cancel already         *)
(* requested, cancel not requested, cooldown not elapsed, not yet expired, *)
(* already expired, own offer and not the allowed taker are pairwise       *)
(* distinct, and acceptOffer, requestCancel, finalizeCancel and            *)
(* reclaimExpired on an id that was never created are rejected with an     *)
(* offer-not-found reason that is none of them.                            *)
C24_DistinctReasons ==
  /\ Cardinality(StateReasons) = 9
  /\ \A id \in Ids \ DOMAIN offers, sender \in Accounts, env \in EnvSet :
       /\ NotFound(requestCancel(Cur, sender, id))
       /\ NotFound(finalizeCancel(Cur, sender, id, env))
       /\ NotFound(reclaimExpired(Cur, sender, id, env))
       /\ \A value \in ValueSet : CanSend(sender, value) =>
            NotFound(acceptOffer(Cur, sender, value, id, env))

---------------------------------------------------------------------------
\* The preconditions of the four operations on offer id, as specified.
Created(id) == id < nextOfferId

AcceptPre(id, sender) ==
  /\ Created(id)
  /\ OfferAt(Cur, id).status = "Open"
  /\ now < OfferAt(Cur, id).expiry
  /\ sender # OfferAt(Cur, id).maker
  /\ OfferAt(Cur, id).allowedTaker \in {ZERO, sender}

RequestPre(id, sender) ==
  /\ Created(id)
  /\ sender = OfferAt(Cur, id).maker
  /\ OfferAt(Cur, id).status = "Open"
  /\ OfferAt(Cur, id).cancelRequestedAt = 0

FinalizePre(id, sender) ==
  /\ Created(id)
  /\ sender = OfferAt(Cur, id).maker
  /\ OfferAt(Cur, id).status = "Open"
  /\ OfferAt(Cur, id).cancelRequestedAt > 0
  /\ now >= OfferAt(Cur, id).cancelRequestedAt + 1800

ReclaimPre(id, sender) ==
  /\ Created(id)
  /\ sender = OfferAt(Cur, id).maker
  /\ OfferAt(Cur, id).status = "Open"
  /\ now >= OfferAt(Cur, id).expiry

(* C25: an acceptOffer, requestCancel, finalizeCancel or reclaimExpired    *)
(* whose preconditions do not hold fails and leaves every offer, profile,  *)
(* index, parameter, the fee accumulator and every balance as before; on   *)
(* an id >= nextOfferId none of them ever succeeds.                        *)
C25_RejectBeforeMutate ==
  \A id \in Ids, sender \in Accounts, env \in EnvSet :
    /\ ~RequestPre(id, sender) => Refused(requestCancel(Cur, sender, id))
    /\ ~FinalizePre(id, sender)
         => Refused(finalizeCancel(Cur, sender, id, env))
    /\ ~ReclaimPre(id, sender)
         => Refused(reclaimExpired(Cur, sender, id, env))
    /\ \A value \in ValueSet :
         (CanSend(sender, value) /\ ~AcceptPre(id, sender))
           => Refused(acceptOffer(Cur, sender, value, id, env))

\* One offer is Settled and the next id was never used: the maker can no
\* longer cancel or reclaim the first, and nobody can act on the second.
C25_Witness ==
  /\ nextOfferId = 1
  /\ offers[0].status = "Settled"
  /\ requestCancel(Cur, offers[0].maker, 0).reason = "Offer not open"
  /\ reclaimExpired(Cur, offers[0].maker, 0, NoEnv).reason = "Offer not open"
  /\ acceptOffer(Cur, "a2", 0, 0, NoEnv).reason = "Offer not open"
  /\ \A a \in Accounts :
       /\ ~acceptOffer(Cur, a, 100, 1, NoEnv).ok
       /\ ~requestCancel(Cur, a, 1).ok
       /\ ~finalizeCancel(Cur, a, 1, NoEnv).ok
       /\ ~reclaimExpired(Cur, a, 1, NoEnv).ok

---------------------------------------------------------------------------
RECURSIVE Backing(_, _, _)
\* What the Open offers with an id below n are owed in asset t: the
\* makerAmount of those that offer t, and in native value their stakes.
Backing(S, t, n) ==
  IF n = 0 THEN 0
  ELSE LET o == S.offers[n - 1]
       IN Backing(S, t, n - 1)
          + (IF o.status = "Open" /\ o.makerToken = t
             THEN o.makerAmount ELSE 0)
          + (IF o.status = "Open" /\ t = ZERO THEN o.stake ELSE 0)

\* The escrow holds what it owes: the Open offers' deposits and, in native
\* value, the accumulated fees.
Solvent(S) ==
  \A t \in Tokens :
    S.bal[t][THIS] >= Backing(S, t, S.nextOfferId)
                      + (IF t = ZERO THEN S.accumulatedFees ELSE 0)

(* C26: in every reachable state the escrow's native balance is at least   *)
(* accumulatedFees plus the stakes and native makerAmounts of the Open     *)
(* offers, and its balance of each token at least the makerAmounts of the  *)
(* Open offers in that token; every settlement, refund and fee withdrawal  *)
(* leaves it so, hence none is paid from what backs another open offer.    *)
C26_Solvency ==
  /\ Solvent(Cur)
  /\ \A sender \in Accounts, env \in EnvSet :
       /\ withdrawFees(Cur, sender, env).ok
            => Solvent(withdrawFees(Cur, sender, env).st)
       /\ \A id \in DOMAIN offers :
            /\ finalizeCancel(Cur, sender, id, env).ok
                 => Solvent(finalizeCancel(Cur, sender, id, env).st)
            /\ reclaimExpired(Cur, sender, id, env).ok
                 => Solvent(reclaimExpired(Cur, sender, id, env).st)
            /\ \A value \in ValueSet :
                 (CanSend(sender, value)
                  /\ acceptOffer(Cur, sender, value, id, env).ok)
                   => Solvent(acceptOffer(Cur, sender, value, id, env).st)

\* One offer was settled with a native fee kept and another is still Open:
\* the escrow holds exactly the fee and the open offer's deposit.
C26_Witness ==
  \E i, j \in DOMAIN offers :
    /\ offers[i].status = "Settled"
    /\ offers[j].status = "Open"
    /\ offers[j].stake > 0
    /\ accumulatedFees > 0
    /\ bal[ZERO][THIS] = accumulatedFees + offers[j].stake
                         + (IF offers[j].makerToken = ZERO
                            THEN offers[j].makerAmount ELSE 0)
    /\ offers[j].makerToken # ZERO
         => bal[offers[j].makerToken][THIS] = offers[j].makerAmount

---------------------------------------------------------------------------
\* The calls an account makes back while it is being paid: every
\* state-changing function, the payable ones with or without value.
ReentryArgs(fn) ==
  CASE fn = "setMinStake" -> {0}
    [] fn = "setPlatformFee" -> {30}
    [] fn = "setFeeRecipient" -> {"a1"}
    [] fn = "createOffer" ->
         {<<ZERO, 100, "T1", 50, 3601, ZERO>>,
          <<"T1", 50, ZERO, 100, 3601, "a2">>}
    [] fn = "withdrawFees" -> {0}
    [] OTHER -> Ids

ReentryValues(fn) ==
  IF fn \in {"createOffer", "acceptOffer"} THEN {0, 110} ELSE {0}

ReentryEnv(by, fn, arg, value) ==
  [rejects |-> {}, denied |-> {},
   hook |-> [by |-> by, fn |-> fn, arg |-> arg, value |-> value]]

Count(log, tag) == Cardinality(Entries(log, tag))

Events(events, name) ==
  Cardinality({i \in DOMAIN events : events[i][1] = name})

\* The call that gave r, nested calls included, closed no offer twice and
\* no offer that was closed before, paid each leg and each stake once per
\* offer it closed, withdrew the fees at most once and left the escrow
\* holding what it owes.
PaidOnce(r) ==
  /\ \A id \in Ids : closings[id] + Closings(r.events, id) <= 1
  /\ Count(r.log, "payMaker") <= Events(r.events, "OfferSettled")
  /\ Count(r.log, "payTaker") <= Events(r.events, "OfferSettled")
  /\ Count(r.log, "refund")
       <= Events(r.events, "CancelFinalized")
          + Events(r.events, "OfferReclaimed")
  /\ Count(r.log, "stake")
       <= Events(r.events, "OfferSettled")
          + Events(r.events, "CancelFinalized")
          + Events(r.events, "OfferReclaimed")
  /\ Count(r.log, "fees") <= 1
  /\ \A i \in Entries(r.log, "fees") : r.st.accumulatedFees = 0
  /\ Solvent(r.st)

(* C27: whatever state-changing call the maker, the taker or the fee       *)
(* recipient makes back into the escrow while a createOffer, acceptOffer,  *)
(* finalizeCancel, reclaimExpired or withdrawFees is paying it, no offer's *)
(* makerAmount, takerAmount or stake is paid out twice, no offer reaches   *)
(* two terminal outcomes and the accumulated fees are not withdrawn twice. *)
C27_NoReentrantDoublePay ==
  \A by \in Accounts, fn \in StateChanging :
    \A arg \in ReentryArgs(fn), v \in ReentryValues(fn) :
      LET env == ReentryEnv(by, fn, arg, v) IN
      /\ (by = feeRecipient /\ withdrawFees(Cur, OWNER, env).ok)
           => PaidOnce(withdrawFees(Cur, OWNER, env))
      /\ \A id \in DOMAIN offers :
           LET o == offers[id] IN
           /\ (by = o.maker /\ finalizeCancel(Cur, by, id, env).ok)
                => PaidOnce(finalizeCancel(Cur, by, id, env))
           /\ (by = o.maker /\ reclaimExpired(Cur, by, id, env).ok)
                => PaidOnce(reclaimExpired(Cur, by, id, env))
           /\ \A sender \in Accounts, value \in ValueSet :
                (/\ CanSend(sender, value)
                 /\ by \in {sender, o.maker}
                 /\ acceptChecks(Enter(Cur, sender, 0), o, sender).ok
                 /\ acceptOffer(Cur, sender, value, id, env).ok)
                  => PaidOnce(acceptOffer(Cur, sender, value, id, env))
      /\ \A value \in ValueSet, args \in CreateArgs :
           LET r == createOffer(Cur, by, value, args[1], args[2], args[3],
                                args[4], args[5], args[6], env)
           IN (/\ CanSend(by, value)
               /\ createChecks(Enter(Cur, by, 0), args[1], args[2], args[3],
                               args[4], args[5]).ok
               /\ r.ok) => PaidOnce(r)

\* a2 can accept offer 0 with more value than it asks, while offer 1 holds
\* the same token: a2, refunded the excess before offer 0 is marked
\* Settled, calls acceptOffer(0) again, and that nested call is refused.
C27_Witness ==
  /\ nextOfferId = 2
  /\ offers[0].status = "Open" /\ offers[1].status = "Open"
  /\ offers[0].makerToken = offers[1].makerToken
  /\ offers[0].takerToken = ZERO
  /\ LET r == acceptOffer(Cur, "a2", 110, 0,
                          ReentryEnv("a2", "acceptOffer", 0, 110))
     IN /\ r.ok
        /\ r.nested = <<[fn |-> "acceptOffer", by |-> "a2", ok |-> FALSE]>>
        /\ offers[0].takerAmount < 110

---------------------------------------------------------------------------
\* The storage after any one change of a parameter by the owner.
AfterAdmin ==
  {Cur}
  \cup {setMinStake(Cur, OWNER, v).st : v \in StakeSet}
  \cup {setPlatformFee(Cur, OWNER, v).st : v \in BpsSet}
  \cup {setFeeRecipient(Cur, OWNER, v).st : v \in RecipientSet}

\* Every Open offer that has expired can be reclaimed by its maker, now and
\* after any change of parameters, cancellation pending or not, with
\* makerAmount and stake returned.
Reclaimable ==
  \A id \in DOMAIN offers :
    LET o == offers[id] IN
    (o.status = "Open" /\ now >= o.expiry) =>
      \A S \in AfterAdmin :
        LET r == reclaimExpired(S, o.maker, id, NoEnv)
        IN /\ r.ok
           /\ r.st.offers[id].status = "Expired"
           /\ Refunded(o, r)

(* C28: no escrow is locked forever.  Once an Open offer has reached its   *)
(* expiry its maker's reclaimExpired succeeds, whatever the cancel state   *)
(* and the parameters, until the offer is closed; and when time advances   *)
(* and makers come back for their expired offers, every offer that was     *)
(* created is eventually closed: Settled if it was accepted, Cancelled or  *)
(* Expired otherwise.                                                      *)
C28_NoLockedEscrow ==
  /\ []Reclaimable
  /\ \A id \in Ids :
       (id \in DOMAIN offers) ~> (id \in DOMAIN offers
                                  /\ offers[id].status # "Open")

\* An offer whose cancellation was pending has been reclaimed at its
\* expiry, and the escrow is empty again.
C28_Witness ==
  \E id \in DOMAIN offers :
    /\ offers[id].status = "Expired"
    /\ offers[id].cancelRequestedAt > 0
    /\ now >= offers[id].expiry
    /\ profiles[offers[id].maker].offersExpired = 1
    /\ \A t \in Tokens : bal[t][THIS] = 0

---------------------------------------------------------------------------
(* C29: withdrawFees by the owner fails when accumulatedFees is 0;         *)
(* otherwise it sets accumulatedFees to 0 before the transfer and sends    *)
(* exactly the previous accumulatedFees in native value to the current     *)
(* feeRecipient; when that transfer fails the call fails and               *)
(* accumulatedFees keeps its value; no offer or profile ever changes.      *)
C29_WithdrawFees ==
  \A env \in EnvSet :
    LET r == withdrawFees(Cur, OWNER, env) IN
    /\ accumulatedFees = 0
         => Refused(r) /\ r.reason = "No fees to withdraw"
    /\ (accumulatedFees > 0 /\ feeRecipient \in env.rejects)
         => Refused(r) /\ r.reason = "Fee withdrawal failed"
    /\ (accumulatedFees > 0 /\ feeRecipient \notin env.rejects) =>
         /\ r.ok
         /\ r.st.accumulatedFees = 0
         /\ Len(r.log) = 1
         /\ Paid(r.log, "fees", ZERO, feeRecipient, accumulatedFees)
         /\ r.seen[1].accumulatedFees = 0
         /\ r.st.bal[ZERO][feeRecipient]
              = bal[ZERO][feeRecipient] + accumulatedFees
         /\ r.st.bal[ZERO][THIS] = bal[ZERO][THIS] - accumulatedFees
         /\ r.st.offers = offers
         /\ r.st.profiles = profiles
         /\ r.st.userOfferIds = userOfferIds
         /\ Params(r.st) = Params(Cur)

\* Fees of 5 were kept from a settlement and the owner has named a1 as the
\* recipient: the withdrawal pays a1, unless a1 refuses it.
C29_Witness ==
  /\ accumulatedFees = 5
  /\ feeRecipient = "a1"
  /\ withdrawFees(Cur, OWNER, NoEnv).st.bal[ZERO]["a1"] = bal[ZERO]["a1"] + 5
  /\ withdrawFees(Cur, OWNER, NoEnv).st.accumulatedFees = 0
  /\ ~withdrawFees(Cur, OWNER,
                   [rejects |-> {"a1"}, denied |-> {}, hook |-> NoHook]).ok

---------------------------------------------------------------------------
(* C30: accumulatedFees changes in two ways only: a successful acceptOffer *)
(* adds exactly the fee of its native leg (makerFee when takerToken is     *)
(* native, takerFee when makerToken is native, and at most one leg is      *)
(* native), and withdrawFees sets it to 0. The fee of a token leg is sent  *)
(* to the feeRecipient in force inside the acceptOffer call and never      *)
(* enters accumulatedFees.                                                 *)

\* The fee acceptOffer computes on the native leg of an offer, if it has one.
NativeFee(o, bps) ==
  IF o.takerToken = ZERO THEN Fee(o.takerAmount, bps)
  ELSE IF o.makerToken = ZERO THEN Fee(o.makerAmount, bps)
  ELSE 0

\* The fee of a leg in a token went to `to` in the call, and the fee of a
\* native leg went nowhere.
FeeForwarded(log, tag, token, fee, to) ==
  IF token # ZERO /\ fee > 0
  THEN Paid(log, tag, token, to, fee)
  ELSE Entries(log, tag) = {}

\* Every call leaves the accumulator alone, except a successful acceptOffer,
\* which adds the native fee, and a withdrawFees, which empties it.
FeesOnlyFromAcceptAndWithdraw ==
  /\ \A id \in DOMAIN offers :
       ~(offers[id].makerToken = ZERO /\ offers[id].takerToken = ZERO)
  /\ \A sender \in Accounts, env \in EnvSet :
       /\ \A fn \in StateChanging \ {"acceptOffer", "withdrawFees"} :
            \A a \in HookArgs(fn), v \in ValueSet :
              CanSend(sender, v) =>
                NestedCall(Cur, [by |-> sender, fn |-> fn, arg |-> a,
                                 value |-> v], env).st.accumulatedFees
                  = accumulatedFees
       /\ withdrawFees(Cur, sender, env).st.accumulatedFees
            \in {0, accumulatedFees}
       /\ \A id \in Ids, value \in ValueSet :
            CanSend(sender, value) =>
              LET r == acceptOffer(Cur, sender, value, id, env)
                  o == OfferAt(Cur, id)
              IN IF ~r.ok THEN r.st.accumulatedFees = accumulatedFees
                 ELSE /\ r.st.accumulatedFees
                           = accumulatedFees + NativeFee(o, platformFeeBps)
                      /\ FeeForwarded(r.log, "makerFee", o.takerToken,
                                      Fee(o.takerAmount, platformFeeBps),
                                      feeRecipient)
                      /\ FeeForwarded(r.log, "takerFee", o.makerToken,
                                      Fee(o.makerAmount, platformFeeBps),
                                      feeRecipient)

C30_AccumulatedFees ==
  /\ []FeesOnlyFromAcceptAndWithdraw
  /\ [][accumulatedFees' # accumulatedFees =>
          \/ /\ accumulatedFees' = 0
             /\ offers' = offers
             /\ bal'[ZERO][feeRecipient]
                  = bal[ZERO][feeRecipient] + accumulatedFees
          \/ \E id \in DOMAIN offers :
               /\ offers[id].status = "Open"
               /\ offers'[id].status = "Settled"
               /\ accumulatedFees'
                    = accumulatedFees
                        + NativeFee(offers[id], platformFeeBps)]_vars

\* A native-for-token offer was settled at 500 bps with a third account as
\* fee recipient: the native fee of 5 is in the accumulator and the token
\* fee of 2 is in the recipient's hands.
C30_Witness ==
  \E id \in DOMAIN offers :
    /\ offers[id].status = "Settled"
    /\ offers[id].makerToken = ZERO
    /\ offers[id].takerToken = "T1"
    /\ feeRecipient \notin {offers[id].maker, offers[id].taker}
    /\ accumulatedFees = 5
    /\ bal["T1"][feeRecipient] = InitBal["T1"][feeRecipient] + 2

---------------------------------------------------------------------------
(* C31: excess native value is always refunded within the same call: a     *)
(* successful createOffer retains exactly makerAmount + stake of the       *)
(* caller's value when makerToken is native and exactly stake otherwise, a *)
(* successful acceptOffer with a native takerToken takes exactly           *)
(* takerAmount from the caller, and a call that supplies less fails.       *)

\* The native value createOffer asks of its caller.
CreateDue(args) == IF args[1] = ZERO THEN args[2] + minStake ELSE minStake

\* createOffer keeps CreateDue of the caller's value, and fails below it.
CreateKeepsDue ==
  \A sender \in Accounts, value \in ValueSet, args \in CreateArgs :
    \A env \in EnvSet : CanSend(sender, value) =>
      LET r == createOffer(Cur, sender, value, args[1], args[2], args[3], args[4], args[5], args[6], env)
      IN /\ value < CreateDue(args) => ~r.ok
         /\ r.ok => /\ r.st.bal[ZERO][sender]
                         = bal[ZERO][sender] - CreateDue(args)
                    /\ r.st.bal[ZERO][THIS]
                         = bal[ZERO][THIS] + CreateDue(args)

\* acceptOffer of an offer asking native value takes takerAmount from the
\* caller, and fails below it.
AcceptNativeKeepsDue ==
  \A id \in DOMAIN offers, sender \in Accounts, value \in ValueSet :
    \A env \in EnvSet :
      (CanSend(sender, value) /\ offers[id].takerToken = ZERO) =>
        LET r == acceptOffer(Cur, sender, value, id, env)
        IN /\ value < offers[id].takerAmount => ~r.ok
           /\ r.ok => r.st.bal[ZERO][sender]
                        = bal[ZERO][sender] - offers[id].takerAmount

\* acceptOffer of an offer asking a token keeps none of the caller's value:
\* the caller's native balance moves by what the offer pays it, if anything.
AcceptTokenKeepsNothing ==
  \A id \in DOMAIN offers, sender \in Accounts, value \in ValueSet :
    \A env \in EnvSet :
      (CanSend(sender, value) /\ offers[id].takerToken # ZERO) =>
        LET r == acceptOffer(Cur, sender, value, id, env)
            o == offers[id]
            paid == IF o.makerToken = ZERO
                    THEN o.makerAmount - Fee(o.makerAmount, platformFeeBps)
                    ELSE 0
        IN r.ok => r.st.bal[ZERO][sender] = bal[ZERO][sender] + paid

\* acceptOffer of an offer asking a token sends no value back: whatever
\* native value the caller sent with it stays with the escrow.
AcceptTokenKeepsValue ==
  \A id \in DOMAIN offers, sender \in Accounts, value \in ValueSet :
    \A env \in EnvSet :
      (CanSend(sender, value) /\ offers[id].takerToken # ZERO) =>
        LET r == acceptOffer(Cur, sender, value, id, env)
            o == offers[id]
            paid == IF o.makerToken = ZERO
                    THEN o.makerAmount - Fee(o.makerAmount, platformFeeBps)
                    ELSE 0
        IN r.ok => /\ r.st.bal[ZERO][sender]
                        = bal[ZERO][sender] + paid - value
                   /\ Entries(r.log, "excess") = {}

\* As stated: no successful createOffer or acceptOffer keeps native value
\* beyond what it asks of its caller.
C31_ExcessAlwaysRefunded ==
  /\ CreateKeepsDue
  /\ AcceptNativeKeepsDue
  /\ AcceptTokenKeepsNothing

\* Amended: createOffer, and acceptOffer of an offer asking native value,
\* keep exactly what is due and fail below it; acceptOffer of an offer
\* asking a token keeps all the native value sent with it.
C31_ExcessRefunded ==
  /\ CreateKeepsDue
  /\ AcceptNativeKeepsDue
  /\ AcceptTokenKeepsValue

\* No stake is asked and a token-for-native offer is open: an accept with
\* 110 gets 10 back, and a native-for-token createOffer with 110 gets 10
\* back.
C31_Witness ==
  /\ minStake = 0
  /\ \E id \in DOMAIN offers :
       /\ offers[id].status = "Open"
       /\ offers[id].takerToken = ZERO
       /\ offers[id].takerAmount = 100
       /\ LET r == acceptOffer(Cur, "a2", 110, id, NoEnv)
          IN r.ok /\ Paid(r.log, "excess", ZERO, "a2", 10)
  /\ LET c == createOffer(Cur, "a3", 110, ZERO, 100, "T1", 50, now + 3600, ZERO, NoEnv)
     IN c.ok /\ Paid(c.log, "excess", ZERO, "a3", 10)

---------------------------------------------------------------------------
(* C32: offer ids are assigned densely and monotonically: the k-th         *)
(* successful createOffer gets id k-1, nextOfferId is the number of offers *)
(* ever created and never decreases, a failed createOffer consumes no id,  *)
(* and no two offers share an id.                                          *)

\* The ids in use are 0 .. nextOfferId - 1, one offer each.
Dense(S) == DOMAIN S.offers = 0..(S.nextOfferId - 1)

\* A successful createOffer stores its offer under the id nextOfferId, which
\* was free, announces that id, and leaves the other offers where they are;
\* a failed one leaves everything as it was.
CreateTakesNextId ==
  \A sender \in Accounts, value \in ValueSet, args \in CreateArgs :
    \A env \in EnvSet : CanSend(sender, value) =>
      LET r == createOffer(Cur, sender, value, args[1], args[2], args[3], args[4], args[5], args[6], env)
      IN IF ~r.ok THEN Refused(r)
         ELSE /\ nextOfferId \notin DOMAIN offers
              /\ r.st.nextOfferId = nextOfferId + 1
              /\ Dense(r.st)
              /\ r.st.offers[nextOfferId].maker = sender
              /\ r.events = << <<"OfferCreated", nextOfferId>> >>
              /\ \A i \in DOMAIN offers : r.st.offers[i] = offers[i]

\* No other call touches the counter or the set of ids.
OthersKeepIds ==
  \A sender \in Accounts, env \in EnvSet :
    \A fn \in StateChanging \ {"createOffer"} :
      \A a \in HookArgs(fn), v \in ValueSet : CanSend(sender, v) =>
        LET r == NestedCall(Cur, [by |-> sender, fn |-> fn, arg |-> a, value |-> v], env)
        IN /\ r.st.nextOfferId = nextOfferId
           /\ DOMAIN r.st.offers = DOMAIN offers

C32_DenseIds ==
  /\ [](Dense(Cur) /\ CreateTakesNextId /\ OthersKeepIds)
  /\ [][/\ nextOfferId' \in {nextOfferId, nextOfferId + 1}
        /\ nextOfferId' = Cardinality(DOMAIN offers')
        /\ \A i \in DOMAIN offers :
             i \in DOMAIN offers' /\ offers'[i].maker = offers[i].maker]_vars

\* Two offers were created, by different makers: they carry the ids 0 and 1
\* and the next one will get 2.
C32_Witness ==
  /\ nextOfferId = 2
  /\ DOMAIN offers = {0, 1}
  /\ offers[0].maker # offers[1].maker
  /\ offers[0].status = "Open"
  /\ offers[1].status = "Open"

---------------------------------------------------------------------------
(* C33: once an offer is created, its maker, makerToken, makerAmount,      *)
(* takerToken, takerAmount, stake, expiry and allowedTaker never change    *)
(* under any operation and the record is never deleted: getOffer(id)       *)
(* returns the same values in every later state, terminal ones included.   *)

\* What getOffer returns of the terms an offer was created with.
Terms(S, id) ==
  LET o == getOffer(S, id)
  IN <<o.maker, o.makerToken, o.makerAmount, o.takerToken, o.takerAmount, o.stake, o.expiry, o.allowedTaker>>

\* The offers of the current state are all in S, on the same terms.
TermsKept(S) ==
  \A id \in DOMAIN offers :
    id \in DOMAIN S.offers /\ Terms(S, id) = Terms(Cur, id)

\* No call, successful or not, changes the terms of an existing offer.
NoCallChangesTerms ==
  \A sender \in Accounts, env \in EnvSet, fn \in StateChanging :
    \A a \in HookArgs(fn), v \in ValueSet : CanSend(sender, v) =>
      TermsKept(NestedCall(Cur, [by |-> sender, fn |-> fn, arg |-> a, value |-> v], env).st)

C33_TermsImmutable ==
  /\ []NoCallChangesTerms
  /\ [][TermsKept(Cur')]_vars

\* An offer created with a stake of 10 has reached a terminal status and the
\* minimum stake has since been set to 0: the offer still reads as created.
C33_Witness ==
  \E id \in DOMAIN offers :
    /\ offers[id].status \in {"Settled", "Cancelled", "Expired"}
    /\ minStake = 0
    /\ Terms(Cur, id)[1] \in Accounts
    /\ Terms(Cur, id)[6] = 10
    /\ Terms(Cur, id)[3] > 0

---------------------------------------------------------------------------
(* C34: requestCancel succeeds only when the caller is the maker, the      *)
(* offer is Open and cancelRequestedAt is 0; it then sets                  *)
(* cancelRequestedAt to the current time and changes nothing else.  It     *)
(* succeeds at most once per offer: a second requestCancel on the same     *)
(* offer always fails, so the cooldown cannot be restarted or shortened.   *)

\* requestCancel succeeds exactly on its three preconditions, writes the
\* time of the request and nothing else, and is refused otherwise.
RequestCancelExact ==
  \A id \in Ids, sender \in Accounts :
    LET r == requestCancel(Cur, sender, id)
    IN IF RequestPre(id, sender)
       THEN /\ r.ok
            /\ r.st = [Cur EXCEPT !.offers[id].cancelRequestedAt = now]
            /\ r.st.offers[id].status = "Open"
            /\ r.log = <<>>
            /\ r.st.bal = bal
            /\ r.st.profiles = profiles
       ELSE Refused(r)

\* After a successful request no account can request again, at once or after
\* any time the clock can reach.
NoSecondRequest ==
  \A id \in Ids, sender \in Accounts :
    LET r == requestCancel(Cur, sender, id)
    IN r.ok =>
         \A again \in Accounts, t \in now..MaxTime :
           ~requestCancel([r.st EXCEPT !.now = t], again, id).ok

C34_RequestCancelOnce ==
  /\ [](RequestCancelExact /\ NoSecondRequest)
  /\ [][\A id \in DOMAIN offers :
          \/ offers'[id].cancelRequestedAt = offers[id].cancelRequestedAt
          \/ /\ offers[id].status = "Open"
             /\ offers[id].cancelRequestedAt = 0
             /\ closings[id] = 0
             /\ offers'[id].status = "Open"
             /\ offers'[id].cancelRequestedAt = now
          \/ /\ offers[id].status = "Open"
             /\ offers'[id].status = "Settled"
             /\ offers'[id].cancelRequestedAt = 0]_vars

\* A cancellation was requested, time has passed and the offer is still
\* Open: the maker's second request is refused and the first date stands.
C34_Witness ==
  \E id \in DOMAIN offers :
    /\ offers[id].status = "Open"
    /\ offers[id].cancelRequestedAt > 0
    /\ now > offers[id].cancelRequestedAt
    /\ requestCancel(Cur, offers[id].maker, id).reason
         = "Cancel already requested"

---------------------------------------------------------------------------
(* C35: cancelRequestedAt changes only by requestCancel (from 0 to the     *)
(* current time) and by a successful acceptOffer (to 0); finalizeCancel    *)
(* and reclaimExpired leave it unchanged.  Hence a Settled offer has       *)
(* cancelRequestedAt = 0 and a Cancelled offer has cancelRequestedAt > 0   *)
(* with at least the cooldown elapsed between that time and its            *)
(* cancellation.                                                           *)

\* The date of the pending cancellation of every offer, as S holds it.
RequestDates(S) == [id \in DOMAIN S.offers |-> S.offers[id].cancelRequestedAt]

\* Only requestCancel and acceptOffer write the date, each on its own offer.
DatesWrittenByTwo ==
  \A sender \in Accounts, env \in EnvSet :
    /\ \A fn \in StateChanging \ {"requestCancel", "acceptOffer", "createOffer"} :
         \A a \in HookArgs(fn) :
           RequestDates(NestedCall(Cur, [by |-> sender, fn |-> fn, arg |-> a, value |-> 0], env).st)
             = RequestDates(Cur)
    /\ \A args \in CreateArgs, v \in ValueSet : CanSend(sender, v) =>
         \A id \in DOMAIN offers :
           createOffer(Cur, sender, v, args[1], args[2], args[3], args[4], args[5], args[6], env).st.offers[id].cancelRequestedAt
             = offers[id].cancelRequestedAt
    /\ \A id \in DOMAIN offers :
         /\ LET r == requestCancel(Cur, sender, id)
            IN IF r.ok
               THEN /\ offers[id].cancelRequestedAt = 0
                    /\ RequestDates(r.st) = [RequestDates(Cur) EXCEPT ![id] = now]
               ELSE RequestDates(r.st) = RequestDates(Cur)
         /\ \A v \in ValueSet : CanSend(sender, v) =>
              LET r == acceptOffer(Cur, sender, v, id, env)
              IN IF r.ok
                 THEN RequestDates(r.st) = [RequestDates(Cur) EXCEPT ![id] = 0]
                 ELSE RequestDates(r.st) = RequestDates(Cur)

\* What follows for the closed offers.
DatesOfClosed ==
  \A id \in DOMAIN offers :
    /\ offers[id].status = "Settled" => offers[id].cancelRequestedAt = 0
    /\ offers[id].status = "Cancelled" =>
         /\ offers[id].cancelRequestedAt > 0
         /\ now >= offers[id].cancelRequestedAt + CANCEL_COOLDOWN

C35_CancelRequestedAt ==
  /\ [](DatesWrittenByTwo /\ DatesOfClosed)
  /\ [][\A id \in DOMAIN offers :
          /\ offers'[id].status = offers[id].status
               => offers'[id].cancelRequestedAt
                    \in {offers[id].cancelRequestedAt, now}
          /\ (offers[id].status = "Open" /\ offers'[id].status = "Cancelled")
               => /\ offers'[id].cancelRequestedAt = offers[id].cancelRequestedAt
                  /\ offers[id].cancelRequestedAt > 0
                  /\ now >= offers[id].cancelRequestedAt + CANCEL_COOLDOWN
          /\ (offers[id].status = "Open" /\ offers'[id].status = "Expired")
               => offers'[id].cancelRequestedAt = offers[id].cancelRequestedAt
          /\ (offers[id].status = "Open" /\ offers'[id].status = "Settled")
               => offers'[id].cancelRequestedAt = 0]_vars

\* A cancellation was requested and finalized once the cooldown had passed:
\* the Cancelled offer keeps the date of the request.
C35_Witness ==
  \E id \in DOMAIN offers :
    /\ offers[id].status = "Cancelled"
    /\ offers[id].cancelRequestedAt > 0
    /\ now >= offers[id].cancelRequestedAt + CANCEL_COOLDOWN
    /\ closings[id] = 1

---------------------------------------------------------------------------
(* C36: for every account a, tradesCompleted is the number of Settled      *)
(* offers in which a is maker or taker, offersCancelled the number of      *)
(* Cancelled offers whose maker is a, offersExpired the number of Expired  *)
(* offers whose maker is a.  The counters never decrease, and createOffer, *)
(* requestCancel, the admin operations and every failed call leave all     *)
(* profiles unchanged.                                                     *)

\* The offers of S in a status that satisfy a condition on the account.
SettledWith(S, a) ==
  {id \in DOMAIN S.offers :
     /\ S.offers[id].status = "Settled"
     /\ a \in {S.offers[id].maker, S.offers[id].taker}}

ClosedBy(S, a, status) ==
  {id \in DOMAIN S.offers :
     S.offers[id].status = status /\ S.offers[id].maker = a}

CountersExact(S) ==
  \A a \in Accounts :
    /\ S.profiles[a].tradesCompleted = Cardinality(SettledWith(S, a))
    /\ S.profiles[a].offersCancelled = Cardinality(ClosedBy(S, a, "Cancelled"))
    /\ S.profiles[a].offersExpired = Cardinality(ClosedBy(S, a, "Expired"))

\* createOffer, requestCancel and the owner's operations never write a
\* profile; no failed call does; a successful one keeps the counters exact.
ProfilesWrittenByClosings ==
  \A sender \in Accounts, env \in EnvSet, fn \in StateChanging :
    \A a \in HookArgs(fn), v \in ValueSet : CanSend(sender, v) =>
      LET r == NestedCall(Cur, [by |-> sender, fn |-> fn, arg |-> a, value |-> v], env)
      IN /\ CountersExact(r.st)
         /\ ~r.ok => r.st.profiles = profiles
         /\ fn \notin {"acceptOffer", "finalizeCancel", "reclaimExpired"}
              => r.st.profiles = profiles

C36_Counters ==
  /\ [](CountersExact(Cur) /\ ProfilesWrittenByClosings)
  /\ [][\A a \in Accounts :
          /\ profiles'[a].tradesCompleted >= profiles[a].tradesCompleted
          /\ profiles'[a].offersCancelled >= profiles[a].offersCancelled
          /\ profiles'[a].offersExpired >= profiles[a].offersExpired]_vars

\* An account has an offer of its own Open and has settled another's: it
\* counts one trade, as does the maker of the settled offer, and the third
\* account counts none.
C36_Witness ==
  \E i, j \in DOMAIN offers :
    /\ offers[i].status = "Settled"
    /\ offers[j].status = "Open"
    /\ offers[j].maker = offers[i].taker
    /\ profiles[offers[i].maker].tradesCompleted = 1
    /\ profiles[offers[i].taker].tradesCompleted = 1
    /\ \E a \in Accounts : profiles[a] = ZeroProfile

---------------------------------------------------------------------------
(* C37: firstTradeAt of an account is set to the time of the first         *)
(* settlement in which the account is maker or taker and never changes     *)
(* afterwards; it stays 0 for an account that has only created, cancelled  *)
(* or let expire offers.  In every reachable state firstTradeAt > 0        *)
(* exactly when tradesCompleted > 0, and firstTradeAt never exceeds the     *)
(* current time.                                                           *)

\* The date goes with the trades, and is not in the future.
FirstTradeDated(S) ==
  \A a \in Accounts :
    /\ S.profiles[a].firstTradeAt > 0 <=> S.profiles[a].tradesCompleted > 0
    /\ S.profiles[a].firstTradeAt <= S.now

\* A call sets the date of an account only if it is a successful acceptOffer,
\* the account is its maker or its caller and has no date yet; the date is
\* then the current time.  Every other date is left as it was.
FirstTradeSetOnce ==
  \A sender \in Accounts, env \in EnvSet, fn \in StateChanging :
    \A x \in HookArgs(fn), v \in ValueSet : CanSend(sender, v) =>
      LET r == NestedCall(Cur, [by |-> sender, fn |-> fn, arg |-> x, value |-> v], env)
          settles == r.ok /\ fn = "acceptOffer"
      IN \A a \in Accounts :
           IF settles /\ a \in {sender, OfferAt(Cur, x).maker} /\ profiles[a].firstTradeAt = 0
           THEN r.st.profiles[a].firstTradeAt = now
           ELSE r.st.profiles[a].firstTradeAt = profiles[a].firstTradeAt

C37_FirstTradeAt ==
  /\ [](FirstTradeDated(Cur) /\ FirstTradeSetOnce)
  /\ [][\A a \in Accounts :
          \/ profiles'[a].firstTradeAt = profiles[a].firstTradeAt
          \/ /\ profiles[a].firstTradeAt = 0
             /\ profiles[a].tradesCompleted = 0
             /\ profiles'[a].tradesCompleted = 1
             /\ profiles'[a].firstTradeAt = now
             /\ \E id \in DOMAIN offers :
                  /\ offers[id].status = "Open"
                  /\ offers'[id].status = "Settled"
                  /\ a \in {offers'[id].maker, offers'[id].taker}]_vars

\* An account settled a first offer, time has passed, and it can now settle
\* a second one: its date stays that of the first.  The maker of the second
\* offer, who has only created it, has no date.
C37_Witness ==
  \E a, b \in Accounts, id \in DOMAIN offers :
    /\ profiles[a].tradesCompleted = 1
    /\ profiles[a].firstTradeAt > 0
    /\ profiles[a].firstTradeAt < now
    /\ offers[id].status = "Open"
    /\ offers[id].maker = b
    /\ profiles[b].firstTradeAt = 0
    /\ \E v \in ValueSet :
         LET r == acceptOffer(Cur, a, v, id, NoEnv)
         IN /\ r.ok
            /\ r.st.profiles[a].tradesCompleted = 2
            /\ r.st.profiles[a].firstTradeAt = profiles[a].firstTradeAt
            /\ r.st.profiles[b].firstTradeAt = now

=============================================================================
